---- MODULE Spec2Model ----
(***************************************************************************)
(* Model of godot-asset-uploader's Markdown-to-description pipeline        *)
(* (src/godot_asset_uploader/markdown.py) and of the link classifier it       *)
(* uses (src/godot_asset_uploader/util.py).                                   *)
(*                                                                         *)
(* One behaviour is one call of get_asset_description.  Init is either the *)
(* README as lines, which Tokenize parses into block tokens, or the state  *)
(* right after the README was parsed and the Renderer constructed; every   *)
(* later step runs the render handler of the next token in document order, *)
(* and Finish is the return of (description, previews).                    *)
(***************************************************************************)
EXTENDS Integers, Sequences, FiniteSets, TLC

VARIABLES
    readme,     \* the lines of the README while it is still to be parsed
    doc,        \* the parsed README: its block tokens in document order
    cfg,        \* config.Config fields read by the pipeline, and the callbacks given to Renderer
    changelog,  \* the file cfg.changelog points at, as Document(changelog_file) parses it
    pc,         \* index in doc of the token whose handler runs next
    suppressed, \* Renderer.suppressed: the list of suppressed tokens (0 is the Document)
    out,        \* the fragments emitted so far, in order
    previews,   \* get_asset_description's previews list
    status,     \* "parsing", "rendering", "done" (returned) or "error" (an exception left the call)
    err,        \* the exception type when status = "error"
    errmsg,     \* the exception's message, for the exceptions render_directive raises
    cbresult,   \* what the callback returned to the delegated handler that ran last
    string,     \* ExtendedAutoLink.find: the text searched
    scan,       \* ExtendedAutoLink.find: where pattern.finditer resumes (0: not searching)
    candidates, \* ExtendedAutoLink.find: the matches collected so far
    find_status, \* ExtendedAutoLink.find: "idle", "finding", "returned" or the exception raised
    ctx,        \* upload_or_update / retry_with_auth: cfg's flags, the call's arguments and
                \* the sources of the username and password parameters
    auth_token, \* whether cfg.auth.token holds a token
    retry,      \* retry_with_auth: the loop variable
    force,      \* retry_with_auth: force
    confirmation, \* upload_or_update: confirmation
    calls,      \* the calls made so far that reach outside the function, in order
    up_pc,      \* "idle", "prepare", "attempt", "conclude", "returned" or "raised"
    obj,        \* ConfigMixin.save: self, an Auth or a Config
    exclude,    \* ConfigMixin.save: the exclude argument
    written,    \* the TOML files written: file name -> the `gdasset` table
    designator, \* find_category_id: its argument, as a sequence of characters
    category,   \* the category id given to find_category_name or found by find_category_id
    cat_pc,     \* "idle", "name" (find_category_name is next), "id" (find_category_id is
                \* next), "returned" or "ValueError"
    tree,       \* guess_vcs_type: the repositories rooted at each level of the chain from
                \* the filesystem root (level 0) down to PATH (the last level)
    path_is_dir, \* guess_vcs_type: whether PATH is a directory
    guessed     \* guess_vcs_type: <<>> before the call, then <<impl, level>>, with
                \* <<"None", -1>> for (None, None)

\* the state of one call of get_asset_description
mdvars == <<readme, doc, cfg, changelog, pc, suppressed, out, previews, status, err, errmsg, cbresult>>
\* the state of one call of ExtendedAutoLink.find
findvars == <<string, scan, candidates, find_status>>
\* the state of one call of upload_or_update or of retry_with_auth's runit
uploadvars == <<ctx, auth_token, retry, force, confirmation, calls, up_pc>>
\* the state of one call of ConfigMixin.save
savevars == <<obj, exclude, written>>
\* the state outside get_asset_description
\* the state of one category lookup
catvars == <<designator, category, cat_pc>>
\* the state of one call of guess_vcs_type
vcsvars == <<tree, path_is_dir, guessed>>
auxvars == <<findvars, uploadvars, savevars, catvars, vcsvars>>
\* the state outside ExtendedAutoLink.find, outside upload_or_update, outside save and
\* outside the category lookup
find_others == <<mdvars, uploadvars, savevars, catvars, vcsvars>>
upload_others == <<mdvars, findvars, savevars, catvars, vcsvars>>
save_others == <<mdvars, findvars, uploadvars, catvars, vcsvars>>
cat_others == <<mdvars, findvars, uploadvars, savevars, vcsvars>>
vcs_others == <<mdvars, findvars, uploadvars, savevars, catvars>>

vars == <<mdvars, auxvars>>

\* Longest README of the directive family (tokens, closing markers included).
MaxBlocks == 6
\* Longest README of the link/callback family and of the changelog family.
MaxSpans == 2
\* Longest list of a changelog file.
MaxItems == 2
\* the longest README given as lines
MaxLines == 4
\* the longest text ExtendedAutoLink.find is given, in characters of the model
MaxText == 5
\* the largest max_retries given to retry_with_auth
MaxRetries == 2
\* the deepest PATH given to guess_vcs_type: its number of ancestors
MaxDepth == 2

Range(s) == {s[i] : i \in DOMAIN s}

(***************************************************************************)
(* URLs.  A href is the record yarl.URL parses it into: scheme, host, the  *)
(* path's segments, the suffixes of the last segment (URL.suffixes), the   *)
(* `v` query parameter (<<>> when absent), whether further (tracking)      *)
(* query parameters follow, and whether the path is an e-mail address.     *)
(* Two more fields carry what the YouTube shapes need: `url`, the decoded  *)
(* `url` query parameter parsed as a URL in its turn (<<>> when absent),   *)
(* and `amp`, the <<key, value>> pairs glued to the last path segment with *)
(* "&" and no "?" (they are part of uri.path, not of uri.query).  A path   *)
(* is kept without its leading and trailing "/".                           *)
(***************************************************************************)
HrefWith(scheme, host, path, suffixes, v, tracking, email, url, amp) ==
    [scheme |-> scheme, host |-> host, path |-> path, suffixes |-> suffixes,
     v |-> v, tracking |-> tracking, email |-> email, url |-> url, amp |-> amp]

Href(scheme, host, path, suffixes, v, tracking, email) ==
    HrefWith(scheme, host, path, suffixes, v, tracking, email, <<>>, <<>>)

\* The target of a token that has none.
NoHref == Href("none", "", <<>>, <<>>, <<>>, FALSE, FALSE)

VIDEO_EXTS == {".mp4", ".mov", ".mkv", ".webm", ".avi", ".ogv", ".ogg"}
IMAGE_EXTS == {".jpg", ".png", ".webp", ".gif"}

\* YOUTUBE_URL.with_query(v=id)
YoutubeCanonical(id) == Href("https", "youtube.com", <<"watch">>, <<>>, <<id>>, FALSE, FALSE)

\* uri.host.endswith(domain) for domain in YOUTUBE_DOMAINS, over the hosts of the model
EndsWithYoutubeDomain(host) ==
    host \in {"youtube.com", "www.youtube.com", "m.youtube.com",
              "youtube-nocookie.com", "www.youtube-nocookie.com", "notyoutube.com"}

\* uri.host.endswith("youtu.be"), over the hosts of the model
EndsWithYoutuBe(host) == host \in {"youtu.be", "www.youtu.be"}

\* the text of the pairs glued to the last path segment: "&key=value" for each
RECURSIVE AmpText(_)
AmpText(amp) ==
    IF amp = <<>> THEN "" ELSE "&" \o amp[1][1] \o "=" \o amp[1][2] \o AmpText(Tail(amp))

\* "/".join of the path's segments
RECURSIVE JoinPath(_)
JoinPath(path) ==
    IF path = <<>> THEN ""
    ELSE IF Len(path) = 1 THEN path[1]
    ELSE path[1] \o "/" \o JoinPath(Tail(path))

\* path.split("/")[-1]: the last segment as it is written, glued pairs included
LastSegment(href) ==
    IF href.path = <<>> THEN "" ELSE href.path[Len(href.path)] \o AmpText(href.amp)

\* the first value of `v` in the query string "v=" + uri.path[1:]: the text up to the first "&"
ShortLinkV(href) == JoinPath(href.path)

\* a short link whose path is taken whole as the id, pairs glued with "&" included
ShortLinkResolved_whole_path(href) ==
    HrefWith("https", "youtube.com", <<"watch">>, <<>>,
             IF href.v # <<>> THEN href.v ELSE <<JoinPath(href.path) \o AmpText(href.amp)>>,
             href.tracking, FALSE, href.url, <<>>)

\* YOUTUBE_URL.with_query(f"v={uri.path[1:]}").update_query(uri.query): the pairs glued to
\* the path become query parameters, and a `v` of uri.query replaces the one from the path
ShortLinkResolved(href) ==
    HrefWith("https", "youtube.com", <<"watch">>, <<>>,
             IF href.v # <<>> THEN href.v ELSE <<ShortLinkV(href)>>,
             href.tracking \/ href.amp # <<>>, FALSE, href.url, <<>>)

\* an is_interesting_link that looks for an e-mail address whatever the scheme
is_interesting_link_any_email(href) ==
    IF href.scheme # "" /\ href.scheme \notin {"http", "https"} THEN FALSE
    ELSE IF href.email THEN FALSE
    ELSE TRUE

is_interesting_link(href) ==
    IF href.scheme # "" /\ href.scheme \notin {"http", "https"} THEN FALSE
    ELSE IF href.scheme = "" /\ href.email THEN FALSE
    ELSE TRUE

is_image_link(href) ==
    /\ href.path # <<>>
    /\ href.suffixes # <<>>
    /\ href.suffixes[Len(href.suffixes)] \in IMAGE_EXTS

\* a normalise_youtube_link that recognises the YouTube URL and returns it as it came
normalise_youtube_link_keeps_href(href) ==
    IF href.scheme \in {"http", "https"} /\ (EndsWithYoutubeDomain(href.host) \/ EndsWithYoutuBe(href.host))
    THEN <<href>> ELSE <<>>

\* <<canonical>> or <<>> (None / False)
RECURSIVE normalise_youtube_link(_)
normalise_youtube_link(href) ==
    IF href.scheme \in {"http", "https"}
    THEN IF EndsWithYoutubeDomain(href.host) /\ href.path = <<"oembed">> /\ href.amp = <<>>
         THEN IF href.url # <<>> THEN normalise_youtube_link(href.url[1]) ELSE <<>>
         ELSE IF /\ EndsWithYoutubeDomain(href.host)
                 /\ href.path \in {<<"watch">>, <<"embed">>} /\ href.amp = <<>>
         THEN IF href.v # <<>> THEN <<YoutubeCanonical(href.v[1])>> ELSE <<>>
         ELSE IF /\ EndsWithYoutubeDomain(href.host)
                 /\ Len(href.path) >= 2
                 /\ href.path[1] \in {"watch", "embed", "v", "e", "live", "shorts"}
         THEN <<YoutubeCanonical(LastSegment(href))>>
         ELSE IF EndsWithYoutuBe(href.host)
         THEN normalise_youtube_link(ShortLinkResolved(href))
         ELSE <<>>
    ELSE <<>>

normalise_video_link(href) ==
    IF normalise_youtube_link(href) # <<>> THEN normalise_youtube_link(href)
    ELSE IF href.path # <<>> /\ Range(href.suffixes) \cap VIDEO_EXTS # {} THEN <<href>>
    ELSE <<>>

\* URL(url).absolute
IsAbsolute(href) == href.host # ""

\* vcs.resolve_with_base_content_url(cfg.repo_url, cfg.commit, url): the raw-content URL
ResolveContent(href) == [href EXCEPT !.scheme = "https", !.host = "raw.githubusercontent.com"]

\* vcs.resolve_with_base_url(cfg.repo_url, cfg.commit, url): the repository URL
ResolveRepo(href) == [href EXCEPT !.scheme = "https", !.host = "github.com"]

\* resolve_with_base_content_url raises NoImplementationError for a BitBucket repository
prep_image_raises(c, href) == c.prep /\ ~IsAbsolute(href) /\ c.provider = "bitbucket"

\* prep_image_func: get_asset_payload's prep_image_url when supplied, else the identity
prep_image_func(c, href) ==
    IF c.prep /\ ~IsAbsolute(href) THEN ResolveContent(href) ELSE href

\* prep_link_func: get_asset_payload's prep_link_url when supplied, else the identity
prep_link_func(c, href) ==
    IF c.prep /\ ~IsAbsolute(href) THEN ResolveRepo(href) ELSE href

(***************************************************************************)
(* Tokens.  doc is the README's block tokens in document order.  A         *)
(* MarkdownDirective token is followed by its children and an "End"        *)
(* marker (the end of its children, no token of its own); a Paragraph      *)
(* holds one span token, whose kind is `span`.  A token is identified by   *)
(* its index in doc; the Document is 0.                                    *)
(***************************************************************************)
Tok(kind, tag, attrs, span, href) ==
    [kind |-> kind, tag |-> tag, attrs |-> attrs, span |-> span, href |-> href]

\* MetaItem.attrs of a directive without attribute lines
NoAttrs == [k \in {} |-> 0]

DirectiveTok(tag, attrs) == Tok("Directive", tag, attrs, "", NoHref)
MarkdownDirectiveTok == Tok("MarkdownDirective", "markdown", NoAttrs, "", NoHref)
EndTok == Tok("End", "", NoAttrs, "", NoHref)
HtmlBlockTok == Tok("HtmlBlock", "", NoAttrs, "", NoHref)
ParagraphTok(span, href) == Tok("Paragraph", "", NoAttrs, span, href)
HeadingTok == Tok("Heading", "", NoAttrs, "RawText", NoHref)

RECURSIVE DepthAfter(_, _)
\* nesting depth after the first n tokens of d; -1 once an End closes nothing
DepthAfter(d, n) ==
    IF n = 0 THEN 0
    ELSE LET before == DepthAfter(d, n - 1) IN
         IF before < 0 THEN -1
         ELSE IF d[n].kind = "MarkdownDirective" THEN before + 1
         ELSE IF d[n].kind = "End" THEN before - 1
         ELSE before

Balanced(d) == DepthAfter(d, Len(d)) = 0

RECURSIVE ParentFrom(_, _, _)
ParentFrom(d, j, closed) ==
    IF j = 0 THEN 0
    ELSE IF d[j].kind = "End" THEN ParentFrom(d, j - 1, closed + 1)
    ELSE IF d[j].kind = "MarkdownDirective"
         THEN IF closed = 0 THEN j ELSE ParentFrom(d, j - 1, closed - 1)
    ELSE ParentFrom(d, j - 1, closed)

\* token.parent: the innermost MarkdownDirective still open at i, or the Document
Parent(d, i) == ParentFrom(d, i - 1, 0)

RECURSIVE NextToken(_, _)
\* the first index from i on that holds a token (blocks_to_lines moves on to it)
NextToken(d, i) ==
    IF i <= Len(d) /\ d[i].kind = "End" THEN NextToken(d, i + 1) ELSE i

(***************************************************************************)
(* Renderer.suppress / Renderer.unsuppress                                 *)
(***************************************************************************)
suppress(sup, token) ==
    IF token \in Range(sup) THEN sup ELSE Append(sup, token)

\* an unsuppress that forgets to remove the token
unsuppress_keeps(sup, token) == sup

\* an unsuppress that ends the suppression whenever a node was skipped (one-shot)
unsuppress_one_shot(sup, token) ==
    IF token \in Range(sup) THEN SelectSeq(sup, LAMBDA t : t # token)
    ELSE IF sup = <<>> THEN sup ELSE Tail(sup)

unsuppress(sup, token) ==
    SelectSeq(sup, LAMBDA t : t # token)

(***************************************************************************)
(* Output fragments.  Text(i) is the text of paragraph i, Markup(i) the    *)
(* original Markdown syntax of token i as MarkdownRenderer emits it,       *)
(* Bare(h) the bare URL h, Replacement a list element a callback returned, *)
(* HeadingPar(i) the "H:" paragraph of changelog directive i and Item(n)   *)
(* changelog list item n.                                                  *)
(***************************************************************************)
Frag(k, i, href) == [k |-> k, i |-> i, href |-> href]
Text(i) == Frag("text", i, NoHref)
Markup(i) == Frag("markup", i, NoHref)
Bare(href) == Frag("url", 0, href)
Replacement == Frag("replacement", 0, NoHref)
HeadingPar(i) == Frag("heading", i, NoHref)
Item(n) == Frag("item", n, NoHref)

Preview(type, link) == [type |-> type, link |-> link]

(***************************************************************************)
(* Callbacks.  A callback's outcome is what it returns ("True", "None",    *)
(* "False", or "Frags" with the list) and what it appends to previews.     *)
(***************************************************************************)
Returned(result, frags, added) == [result |-> result, frags |-> frags, added |-> added]

\* no callback was called
NoCall == Returned("", <<>>, <<>>)

\* a process_image that ends with `return True`
process_image_renders(c, token) ==
    Returned("True", <<>>, <<Preview("image", prep_image_func(c, token.href))>>)

\* get_asset_description.process_image: no return statement, so it returns None
process_image(c, token) ==
    IF prep_image_raises(c, token.href) THEN Returned("Raise", <<>>, <<>>)
    ELSE Returned("None", <<>>, <<Preview("image", prep_image_func(c, token.href))>>)

\* a tail of process_link that never unwraps: the link keeps its Markdown syntax
UnwrapOrKeep_keeps_syntax(c, token) == Returned("True", <<>>, <<>>)

\* the tail of process_link: the link stays in the description
UnwrapOrKeep(c, token) ==
    IF c.unwrap_links THEN Returned("Frags", <<Bare(token.href)>>, <<>>)
    ELSE Returned("True", <<>>, <<>>)

\* a process_link that tests is_image_link before normalise_video_link
process_link_image_first(c, token) ==
    IF ~is_interesting_link(token.href) THEN UnwrapOrKeep(c, token)
    ELSE IF is_image_link(token.href)
    THEN Returned("None", <<>>, <<Preview("image", prep_image_func(c, token.href))>>)
    ELSE IF normalise_video_link(token.href) # <<>>
    THEN Returned("None", <<>>,
                  <<Preview("video", prep_image_func(c, normalise_video_link(token.href)[1]))>>)
    ELSE UnwrapOrKeep(c, token)

process_link(c, token) ==
    IF ~is_interesting_link(token.href) THEN UnwrapOrKeep(c, token)
    ELSE IF normalise_video_link(token.href) # <<>>
    THEN IF prep_image_raises(c, normalise_video_link(token.href)[1]) THEN Returned("Raise", <<>>, <<>>)
         ELSE Returned("None", <<>>,
                       <<Preview("video", prep_image_func(c, normalise_video_link(token.href)[1]))>>)
    ELSE IF is_image_link(token.href)
    THEN IF prep_image_raises(c, token.href) THEN Returned("Raise", <<>>, <<>>)
         ELSE Returned("None", <<>>, <<Preview("image", prep_image_func(c, token.href))>>)
    ELSE UnwrapOrKeep(c, token)

process_html(c, token) ==
    IF c.preserve_html THEN Returned("True", <<>>, <<>>) ELSE Returned("None", <<>>, <<>>)

\* What a callback given to a Renderer by another caller may return, or raise.
GenericResults ==
    { Returned("True", <<>>, <<>>), Returned("None", <<>>, <<>>), Returned("False", <<>>, <<>>),
      Returned("Frags", <<>>, <<>>), Returned("Frags", <<Replacement>>, <<>>),
      Returned("Raise", <<>>, <<>>) }

\* the render method's kind of callback: image_callback, link_callback or html_callback
CallbackName(handler) ==
    IF handler = "Image" THEN "image_callback"
    ELSE IF handler \in {"Link", "AutoLink", "ExtendedAutoLink"} THEN "link_callback"
    ELSE "html_callback"

\* getattr(self, callback_name) is not None
HasCallback(c) == c.mode = "asset" \/ c.callbacks

\* callback(token), for the callbacks get_asset_description installs; g is what a
\* callback of another caller returns
Callback(c, handler, token, g) ==
    IF c.mode # "asset" THEN g
    ELSE IF CallbackName(handler) = "image_callback" THEN process_image(c, token)
    ELSE IF CallbackName(handler) = "link_callback" THEN process_link(c, token)
    ELSE process_html(c, token)

\* the render methods MarkdownRenderer has: getattr(super(), method_name) finds these,
\* and raises AttributeError for render_extended_auto_link, which only Renderer defines
SuperRenders(handler) == handler \in {"Image", "Link", "AutoLink", "HtmlSpan", "HtmlBlock"}

\* what a handler did: the fragments it returned, the previews its callback added, the
\* exception it raised ("" for none) and what its callback returned (NoCall without one)
Outcome(frags, added, error, result) ==
    [frags |-> frags, added |-> added, error |-> error, result |-> result]

\* a delegated that catches what the callback raises and renders nothing
delegated_catches(c, handler, token, i, sup, g) ==
    LET callback == HasCallback(c)
        result == IF callback THEN Callback(c, handler, token, g) ELSE Returned("None", <<>>, <<>>)
    IN  IF callback /\ result.result = "Raise" THEN Outcome(<<>>, <<>>, "", result)
        ELSE IF result.result = "True" \/ ~callback
        THEN IF sup = <<>>
             THEN IF SuperRenders(handler) THEN Outcome(<<Markup(i)>>, result.added, "", result)
                  ELSE Outcome(<<>>, result.added, "AttributeError", result)
             ELSE Outcome(<<>>, result.added, "", result)
        ELSE IF result.result # "None"
        THEN IF result.result = "Frags" THEN Outcome(result.frags, result.added, "", result)
             ELSE Outcome(<<>>, result.added, "TypeError", result)
        ELSE Outcome(<<>>, result.added, "", result)

\* Renderer.delegated's func, for the token at index i rendered by `handler`
delegated(c, handler, token, i, sup, g) ==
    LET callback == HasCallback(c)
        result == IF callback THEN Callback(c, handler, token, g) ELSE Returned("None", <<>>, <<>>)
    IN  \* callback(token) raised: the exception leaves func
        IF callback /\ result.result = "Raise" THEN Outcome(<<>>, <<>>, "NoImplementationError", result)
        ELSE IF result.result = "True" \/ ~callback
        THEN IF sup = <<>>
             THEN IF SuperRenders(handler) THEN Outcome(<<Markup(i)>>, result.added, "", result)
                  ELSE Outcome(<<>>, result.added, "AttributeError", result)
             ELSE Outcome(<<>>, result.added, "", result)
        ELSE IF result.result # "None"
        THEN IF result.result = "Frags" THEN Outcome(result.frags, result.added, "", result)
             \* False is returned as it is, and the caller fails to iterate over it
             ELSE Outcome(<<>>, result.added, "TypeError", result)
        ELSE Outcome(<<>>, result.added, "", result)

\* MarkdownRenderer.render_paragraph on a paragraph holding one span: make_fragments
\* calls the span's render method
render_paragraph(c, token, i, sup, g) ==
    IF token.span = "RawText" THEN Outcome(<<Text(i)>>, <<>>, "", NoCall)
    \* MarkdownRenderer.render_emphasis: the text between its delimiters
    ELSE IF token.span = "Emphasis" THEN Outcome(<<Markup(i)>>, <<>>, "", NoCall)
    ELSE delegated(c, token.span, token, i, sup, g)

\* MarkdownRenderer.render_heading: the heading with its marker
render_heading(i) == Outcome(<<Markup(i)>>, <<>>, "", NoCall)

\* a maybe_render that runs the wrapped method whatever is suppressed
maybe_render_always(sup, rendered) == rendered

\* Renderer.maybe_render's try block: the wrapped method runs only when nothing is suppressed
maybe_render(sup, rendered) ==
    IF sup = <<>> THEN rendered ELSE Outcome(<<>>, <<>>, "", NoCall)

(***************************************************************************)
(* The changelog file: whether it exists, and the top-level children of    *)
(* Document(changelog_file), each a Paragraph or a List with its items.    *)
(***************************************************************************)
ChangelogFile(exists, children) == [exists |-> exists, children |-> children]
ChangelogBlock(kind, items) == [kind |-> kind, items |-> items]

RECURSIVE FirstListFrom(_, _)
FirstListFrom(children, j) ==
    IF j > Len(children) THEN 0
    ELSE IF children[j].kind = "List" THEN j
    ELSE FirstListFrom(children, j + 1)

\* the index of the first List among the children, 0 when the for loop finds none
FirstList(children) == FirstListFrom(children, 1)

Min(a, b) == IF a <= b THEN a ELSE b
Max(a, b) == IF a >= b THEN a ELSE b

\* attribute values are strings (MetaItem keeps v.strip()); the decimal numerals
Digits == <<"0", "1", "2", "3", "4", "5", "6", "7", "8", "9">>

\* whether int(num) returns: num is a numeral, possibly negative
IsIntLiteral(num) == num = "-1" \/ \E n \in 1..Len(Digits) : Digits[n] = num

\* int(num) for a num it accepts
int(num) == IF num = "-1" THEN -1 ELSE (CHOOSE n \in 1..Len(Digits) : Digits[n] = num) - 1

\* the Python slice items[:n]
SliceTo(items, n) ==
    IF n >= 0 THEN SubSeq(items, 1, Min(n, Len(items)))
    ELSE SubSeq(items, 1, Max(Len(items) + n, 0))

\* if (num := item.attrs.get("items")): the attribute is there and is not the empty string
HasLimit(attrs) == "items" \in DOMAIN attrs /\ attrs["items"] # ""

\* changelog.children[:int(num)] when the directive has a non-empty `items` attribute
TruncatedItems(items, attrs) ==
    IF HasLimit(attrs) THEN SliceTo(items, int(attrs["items"]))
    ELSE items

RECURSIVE ItemFrags(_)
ItemFrags(items) ==
    IF items = <<>> THEN <<>> ELSE <<Item(Head(items))>> \o ItemFrags(Tail(items))

\* to_render, each block as the fragments its rendering emits
ToRender(token, i, list) ==
    (IF "heading" \in DOMAIN token.attrs THEN <<<<HeadingPar(i)>>>> ELSE <<>>)
        \o <<ItemFrags(TruncatedItems(list.items, token.attrs))>>

RECURSIVE blocks_to_lines(_, _)
\* MarkdownRenderer.blocks_to_lines over to_render: each block goes through maybe_render
blocks_to_lines(blocks, sup) ==
    IF blocks = <<>> THEN <<>>
    ELSE maybe_render(sup, Outcome(Head(blocks), <<>>, "", NoCall)).frags \o blocks_to_lines(Tail(blocks), sup)

\* what render_directive did: the suppression list it leaves, the lines it returned, the
\* exception it raised ("" for none) and the exception's message
Directed(sup, frags, error, msg) ==
    [suppressed |-> sup, frags |-> frags, error |-> error, msg |-> msg]

\* a render_directive that renders nothing for a changelog file without a list
render_directive_skips_missing_list(token, i, parent, sup, file) ==
    IF token.tag = "changelog"
    THEN IF ~file.exists THEN Directed(sup, <<>>, "GdAssetError", <<"Changelog file not found">>)
         ELSE IF FirstList(file.children) = 0 THEN Directed(sup, <<>>, "", <<>>)
         ELSE IF "heading" \notin DOMAIN token.attrs THEN Directed(sup, <<>>, "KeyError", <<"heading">>)
         ELSE IF HasLimit(token.attrs) /\ ~IsIntLiteral(token.attrs["items"])
         THEN Directed(sup, <<>>, "ValueError", <<"invalid literal for int()">>)
         ELSE Directed(sup,
                       blocks_to_lines(ToRender(token, i, file.children[FirstList(file.children)]), sup),
                       "", <<>>)
    ELSE IF token.tag = "exclude" THEN Directed(suppress(sup, parent), <<>>, "", <<>>)
    ELSE IF token.tag = "include" THEN Directed(unsuppress(sup, parent), <<>>, "", <<>>)
    ELSE Directed(sup, <<>>, "GdAssetError", <<"Unsupported directive", token.tag>>)

\* a render_directive that maybe_render wraps: it does nothing while something is suppressed
render_directive_suppressible(token, i, parent, sup, file) ==
    IF sup # <<>> THEN Directed(unsuppress(sup, i), <<>>, "", <<>>)
    ELSE render_directive_skips_missing_list(token, i, parent, sup, file)

\* Renderer.render_directive for the directive at index i, whose parent is `parent`
render_directive(token, i, parent, sup, file) ==
    IF token.tag = "changelog"
    THEN IF ~file.exists THEN Directed(sup, <<>>, "GdAssetError", <<"Changelog file not found">>)
         ELSE IF FirstList(file.children) = 0
         THEN Directed(sup, <<>>, "GdAssetError", <<"Changelog file does not contain a list">>)
         \* par = Paragraph([item.attrs["heading"] + ":"]) runs whether or not there is a heading
         ELSE IF "heading" \notin DOMAIN token.attrs THEN Directed(sup, <<>>, "KeyError", <<"heading">>)
         \* int(num) on a value that is not a numeral
         ELSE IF HasLimit(token.attrs) /\ ~IsIntLiteral(token.attrs["items"])
         THEN Directed(sup, <<>>, "ValueError", <<"invalid literal for int()">>)
         ELSE Directed(sup,
                       blocks_to_lines(ToRender(token, i, file.children[FirstList(file.children)]), sup),
                       "", <<>>)
    ELSE IF token.tag = "exclude" THEN Directed(suppress(sup, parent), <<>>, "", <<>>)
    ELSE IF token.tag = "include" THEN Directed(unsuppress(sup, parent), <<>>, "", <<>>)
    ELSE Directed(sup, <<>>, "GdAssetError", <<"Unsupported directive", token.tag>>)

(***************************************************************************)
(* Parsing.  A README line is either an opening line `<!-- gdasset: TAG`   *)
(* followed by `extra` (anything written after the tag) or a plain line    *)
(* whose text is `content`, already split at its first colon; `arrow`      *)
(* tells how the line ends: without `-->` ("none"), with ` -->` after a    *)
(* space ("spaced") or with `-->` right after the text ("tight").          *)
(***************************************************************************)
Line(open, tag, extra, content, arrow) ==
    [open |-> open, tag |-> tag, extra |-> extra, content |-> content, arrow |-> arrow]
OpenLine(tag, extra, arrow) == Line(TRUE, tag, extra, <<>>, arrow)
PlainLine(content, arrow) == Line(FALSE, "", "", content, arrow)

\* str.lower() on the tags and keys of the sample lines
lower(word) ==
    CASE word = "Changelog" -> "changelog"
      [] word = "Exclude" -> "exclude"
      [] word = "Heading" -> "heading"
      [] word = "Items" -> "items"
      [] OTHER -> word

\* a line with nothing but white space
IsBlank(line) == ~line.open /\ line.content = <<"">> /\ line.arrow = "none"

\* Directive.START_REGEX.match(line): ^[^<]*<!-- *gdasset: *(\w+)( -->)?$
Directive_start(line) ==
    line.open /\ line.extra = "" /\ line.arrow \in {"none", "spaced"}

\* a MarkdownDirective.START_REGEX that wants the opening line closed by ` -->`
MarkdownDirective_start_closed(line) ==
    line.open /\ line.tag = "markdown" /\ line.extra = "" /\ line.arrow = "spaced"

\* MarkdownDirective.START_REGEX.match(line): ^[^<]*<!-- *gdasset: *(markdown) *$
MarkdownDirective_start(line) ==
    line.open /\ line.tag = "markdown" /\ line.extra = "" /\ line.arrow = "none"

\* Directive.END_REGEX.search(line.strip()), ^(.*) -->, in the loop of Directive.read:
\* the stripped line has ` -->` after some text
Directive_end(line) ==
    line.arrow = "spaced" /\ (line.open \/ line.content # <<"">>)

\* MarkdownDirective.END_REGEX.search(line): ^ *-->
MarkdownDirective_end(line) ==
    ~line.open /\ line.content = <<"">> /\ line.arrow # "none"

\* attr.split(":", 1) on what Directive.read keeps of a line of the directive's body:
\* match.group(1) for the closing line, line.strip() for the others
Kept(line) ==
    LET parts == IF line.open THEN <<"<!-- gdasset", line.tag \o line.extra>> ELSE line.content
        tail == IF Directive_end(line) \/ line.arrow = "none" THEN ""
                ELSE IF line.arrow = "spaced" THEN " -->" ELSE "-->"
    IN  [parts EXCEPT ![Len(parts)] = @ \o tail]

RECURSIVE Directive_read_body(_, _)
\* the for loop of Directive.read from line j: the kept lines and the index of the first
\* line that is not consumed
Directive_read_body(lines, j) ==
    IF j > Len(lines) THEN [buf |-> <<>>, next |-> j]
    ELSE IF Directive_end(lines[j]) THEN [buf |-> <<Kept(lines[j])>>, next |-> j + 1]
    ELSE LET r == Directive_read_body(lines, j + 1) IN
         [buf |-> <<Kept(lines[j])>> \o r.buf, next |-> r.next]

\* Directive.read on a line Directive.start accepted: the tag, then the body
Directive_read(lines, j) ==
    IF lines[j].arrow = "spaced" THEN [buf |-> <<<<lines[j].tag>>>>, next |-> j + 1]
    ELSE LET r == Directive_read_body(lines, j + 1) IN
         [buf |-> <<<<lines[j].tag>>>> \o r.buf, next |-> r.next]

RECURSIVE MarkdownDirective_read_body(_, _)
\* the for loop of MarkdownDirective.read from line j
MarkdownDirective_read_body(lines, j) ==
    IF j > Len(lines) THEN [buf |-> <<>>, next |-> j]
    ELSE IF MarkdownDirective_end(lines[j]) THEN [buf |-> <<>>, next |-> j + 1]
    ELSE LET r == MarkdownDirective_read_body(lines, j + 1) IN
         [buf |-> <<lines[j]>> \o r.buf, next |-> r.next]

\* MarkdownDirective.read: next(lines), then the loop
MarkdownDirective_read(lines, j) == MarkdownDirective_read_body(lines, j + 1)

\* MetaItem.__init__(matches): the lower-cased tag, the value (None: the header never
\* holds a colon) and the attributes; `ok` is FALSE when the unpacking of
\* attr.split(":", 1) raises ValueError for a line without a colon
MetaItem(matches) ==
    LET attrs == Tail(matches)
        keys == {lower(attrs[n][1]) : n \in 1..Len(attrs)}
        last(k) == CHOOSE n \in 1..Len(attrs) :
                      /\ lower(attrs[n][1]) = k
                      /\ \A m \in (n + 1)..Len(attrs) : lower(attrs[m][1]) # k
    IN  IF \E n \in 1..Len(attrs) : Len(attrs[n]) # 2
        THEN [ok |-> FALSE, tag |-> lower(Head(matches)[1]), value |-> "None", attrs |-> NoAttrs]
        ELSE [ok |-> TRUE, tag |-> lower(Head(matches)[1]), value |-> "None",
              attrs |-> [k \in keys |-> attrs[last(k)][2]]]

\* the token of a Directive whose MetaItem could not be built
ErrorTok == Tok("Error", "", NoAttrs, "", NoHref)

\* Directive.__init__(lines): self.children = [MetaItem(lines)]
Directive_init(buf) ==
    LET item == MetaItem(buf) IN
    IF item.ok THEN DirectiveTok(item.tag, item.attrs) ELSE ErrorTok

RECURSIVE HtmlBlock_read(_, _)
\* HtmlBlock.read on a comment that is no directive: up to the line that holds `-->`
HtmlBlock_read(lines, j) ==
    IF j > Len(lines) THEN j
    ELSE IF lines[j].arrow # "none" THEN j + 1
    ELSE HtmlBlock_read(lines, j + 1)

RECURSIVE tokenize_from(_, _)
\* block_token.tokenize(lines) from line j, with MarkdownDirective tried before Directive
\* and both before HtmlBlock and Paragraph; the children of a MarkdownDirective follow
\* its token and end at an "End" marker
tokenize_from(lines, j) ==
    IF j > Len(lines) THEN <<>>
    ELSE IF IsBlank(lines[j]) THEN tokenize_from(lines, j + 1)
    ELSE IF MarkdownDirective_start(lines[j])
    THEN LET r == MarkdownDirective_read(lines, j) IN
         <<MarkdownDirectiveTok>> \o tokenize_from(r.buf, 1) \o <<EndTok>> \o tokenize_from(lines, r.next)
    ELSE IF Directive_start(lines[j])
    THEN LET r == Directive_read(lines, j) IN
         <<Directive_init(r.buf)>> \o tokenize_from(lines, r.next)
    ELSE IF lines[j].open
    THEN <<HtmlBlockTok>> \o tokenize_from(lines, HtmlBlock_read(lines, j))
    ELSE <<ParagraphTok("RawText", NoHref)>> \o tokenize_from(lines, j + 1)

\* Document(cfg.readme.read_text()).children
tokenize(lines) == tokenize_from(lines, 1)

(***************************************************************************)
(* ExtendedAutoLink.find.  A text is a sequence of characters, with "H"     *)
(* standing for the seven characters `http://`; positions and spans count  *)
(* characters from 0 as Python does.                                       *)
(***************************************************************************)
\* len() of a character of the model
Width(c) == IF c = "H" THEN 7 ELSE 1

\* the offset of the character at index p: the widths of the characters before it
RECURSIVE Offset(_, _)
Offset(s, p) == IF p <= 1 THEN 0 ELSE Offset(s, p - 1) + Width(s[p - 1])

\* the characters ExtendedAutoLink.pattern accepts before a URL: whitespace, * _ ~ (
PatternDelimiters == {" ", "(", "*", "_", "~"}

\* [^\s<>]+ : the index of the last character of the run without whitespace from p
RECURSIVE RunEnd(_, _)
RunEnd(s, p) == IF p < Len(s) /\ s[p + 1] # " " THEN RunEnd(s, p + 1) ELSE p

\* pattern.finditer: the index of the next `http://` at or after `from` that stands at
\* the start of the text or after a delimiter and is followed by a character; 0 if none
RECURSIVE NextMatch(_, _)
NextMatch(s, from) ==
    IF from > Len(s) THEN 0
    ELSE IF /\ from = 1 /\ s[1] = "H" /\ Len(s) >= 2 /\ s[2] # " " THEN 1
    ELSE IF /\ from < Len(s) /\ s[from] \in PatternDelimiters /\ s[from + 1] = "H"
            /\ from + 1 < Len(s) /\ s[from + 2] # " " THEN from + 1
    ELSE NextMatch(s, from + 1)

\* cand.rstrip("?!.,:*_~")
RECURSIVE rstrip(_)
rstrip(cand) ==
    IF cand # <<>> /\ cand[Len(cand)] \in {"?", "!", ".", ",", ":", "*", "_", "~"}
    THEN rstrip(SubSeq(cand, 1, Len(cand) - 1)) ELSE cand

\* a count of unmatched closing parentheses: closing minus opening ones
RECURSIVE unmatched_balanced(_)
unmatched_balanced(cand) ==
    IF cand = <<>> THEN 0
    ELSE unmatched_balanced(Tail(cand))
            + (IF cand[1] = "(" THEN -1 ELSE IF cand[1] = ")" THEN 1 ELSE 0)

\* -sum([-1 if c == "(" else -1 for c in cand if c in "()"]): every parenthesis counts
RECURSIVE unmatched(_)
unmatched(cand) ==
    IF cand = <<>> THEN 0
    ELSE unmatched(Tail(cand)) + (IF cand[1] \in {"(", ")"} THEN 1 ELSE 0)

\* cand[:-n] for n > 0, in characters: `http://` is never cut into by the texts of the model
DropLast(cand, n) == SubSeq(cand, 1, IF Len(cand) > n THEN Len(cand) - n ELSE 0)

\* the candidate after the two strips that precede the entity test
StripParens(cand) ==
    IF cand # <<>> /\ cand[Len(cand)] = ")" /\ unmatched(cand) > 0
    THEN DropLast(cand, unmatched(cand)) ELSE cand

\* validator_collection's is_url, over the texts of the model: a URL has a host that
\* begins with a letter
is_url(cand) == Len(cand) >= 2 /\ cand[1] = "H" /\ cand[2] = "a"

\* len(cand)
RECURSIVE TextLen(_)
TextLen(cand) == IF cand = <<>> THEN 0 ELSE Width(cand[1]) + TextLen(Tail(cand))

\* MatchObj(start, end, (start, end, cand))
MatchObj(start, end, cand) == [start |-> start, end |-> end, text |-> cand]

\* one iteration of find's loop for the match whose group 1 starts at index p of s:
\* the candidate appended (<<>> when is_url rejects it) or the exception raised
FindStep(s, p) ==
    LET cand == StripParens(rstrip(SubSeq(s, p, RunEnd(s, p)))) IN
        IF cand # <<>> /\ cand[Len(cand)] = ";"
        THEN [error |-> "AttributeError", found |-> <<>>]
        ELSE [error |-> "",
              found |-> IF is_url(cand)
                        THEN <<MatchObj(Offset(s, p), Offset(s, p) + TextLen(cand), cand)>>
                        ELSE <<>>]

(***************************************************************************)
(* Inputs: configurations, READMEs and changelog files.                    *)
(***************************************************************************)
Config(mode, unwrap_links, preserve_html, prep, callbacks) ==
    [mode |-> mode, unwrap_links |-> unwrap_links, preserve_html |-> preserve_html,
     prep |-> prep, callbacks |-> callbacks, provider |-> "github"]

\* get_asset_description(cfg) with Config's defaults and no rewrite functions
DefaultConfig == Config("asset", TRUE, FALSE, FALSE, TRUE)

\* get_asset_description with each value of unwrap_links and preserve_html, with and
\* without get_asset_payload's rewrite functions
AssetConfigs == {Config("asset", u, h, p, TRUE) : u \in BOOLEAN, h \in BOOLEAN, p \in BOOLEAN}

\* get_asset_payload's rewrite functions for a repository on BitBucket
BitbucketConfigs ==
    {[Config("asset", u, h, TRUE, TRUE) EXCEPT !.provider = "bitbucket"] : u \in BOOLEAN, h \in BOOLEAN}

\* a Renderer built by another caller: its callbacks return anything, or it has none
RendererConfigs == {Config("renderer", TRUE, FALSE, FALSE, cb) : cb \in BOOLEAN}

NoChangelog == ChangelogFile(FALSE, <<>>)

YoutubeWatch == Href("https", "www.youtube.com", <<"watch">>, <<>>, <<"dQw4">>, TRUE, FALSE)
YoutubeShort == Href("https", "youtu.be", <<"dQw4">>, <<>>, <<>>, TRUE, FALSE)
YoutubeAttribution ==
    Href("https", "www.youtube.com", <<"attribution_link">>, <<>>, <<>>, TRUE, FALSE)
VideoRel == Href("", "", <<"media", "demo">>, <<".mp4">>, <<>>, FALSE, FALSE)
ImageAbs == Href("https", "example.com", <<"shot">>, <<".png">>, <<>>, FALSE, FALSE)
ImageRel == Href("", "", <<"img", "shot">>, <<".png">>, <<>>, FALSE, FALSE)
VideoImage == Href("https", "example.com", <<"clip">>, <<".mp4", ".png">>, <<>>, FALSE, FALSE)
PageAbs == Href("https", "example.com", <<"docs">>, <<>>, <<>>, FALSE, FALSE)
PageRel == Href("", "", <<"docs", "guide">>, <<".md">>, <<>>, FALSE, FALSE)
Mailto == Href("mailto", "", <<"a@b.c">>, <<>>, <<>>, FALSE, TRUE)
Email == Href("", "", <<"a@b.c">>, <<>>, <<>>, FALSE, TRUE)
FtpVideo == Href("ftp", "example.com", <<"clip">>, <<".mp4">>, <<>>, FALSE, FALSE)

\* the YouTube URL shapes of the test corpus for a video id: watch and embed with the
\* id in `v`, the six path prefixes with the id as last segment, the oembed endpoint
\* wrapping a watch URL, and the short link with parameters after "?" or glued with "&"
YoutubeIds == {"dQw4", "a-b_9"}
YoutubeSchemes == {"http", "https"}
YoutubeHosts == {"youtube.com", "www.youtube.com", "m.youtube.com", "www.youtube-nocookie.com"}
YOUTUBE_SUPPORTED_URLS(id) ==
    {Href(s, h, <<p>>, <<>>, <<id>>, t, FALSE)
        : s \in YoutubeSchemes, h \in YoutubeHosts, p \in {"watch", "embed"}, t \in BOOLEAN}
    \cup {Href(s, h, <<p, id>>, <<>>, <<>>, t, FALSE)
        : s \in YoutubeSchemes, h \in YoutubeHosts,
          p \in {"watch", "embed", "v", "e", "live", "shorts"}, t \in BOOLEAN}
    \cup {HrefWith(s, h, <<"oembed">>, <<>>, <<>>, TRUE, FALSE,
                   <<Href("http", "www.youtube.com", <<"watch">>, <<>>, <<id>>, FALSE, FALSE)>>, <<>>)
        : s \in YoutubeSchemes, h \in YoutubeHosts}
    \cup {Href(s, "youtu.be", <<id>>, <<>>, <<>>, t, FALSE) : s \in YoutubeSchemes, t \in BOOLEAN}
    \cup {HrefWith(s, "youtu.be", <<id>>, <<>>, <<>>, FALSE, FALSE, <<>>, <<<<"feature", "channel">>>>)
        : s \in YoutubeSchemes}
\* the corpus by video id
YoutubeCorpus == [id \in YoutubeIds |-> YOUTUBE_SUPPORTED_URLS(id)]
YOUTUBE_UNSUPPORTED_URLS ==
    {Href(s, h, <<"attribution_link">>, <<>>, <<>>, TRUE, FALSE)
        : s \in YoutubeSchemes, h \in {"youtube.com", "www.youtube.com", "m.youtube.com"}}

\* targets of bracketed links, of <...> autolinks (which need a scheme or are an e-mail
\* address) and of bare URLs (which ExtendedAutoLink.pattern requires to be http(s))
LinkTargets == {YoutubeWatch, VideoRel, ImageRel, VideoImage, PageAbs, PageRel, Mailto, FtpVideo}
AutoLinkTargets == {YoutubeShort, PageAbs, Email}
ExtendedAutoLinkTargets == {YoutubeWatch, YoutubeAttribution, ImageAbs}
ImageSources == {ImageAbs, ImageRel}

TextPar == ParagraphTok("RawText", NoHref)
Exclude == DirectiveTok("exclude", NoAttrs)
Include == DirectiveTok("include", NoAttrs)

SeqsUpTo(S, n) == UNION {[1..m -> S] : m \in 1..n}

\* READMEs of directives, paragraphs and raw-markdown blocks
DirectiveBlocks == {Exclude, Include, TextPar, MarkdownDirectiveTok, EndTok}
DirectiveDocs == {d \in SeqsUpTo(DirectiveBlocks, MaxBlocks) : Balanced(d)}

\* READMEs of images, links of the three syntaxes, raw HTML and text
SpanBlocks ==
    {TextPar, Exclude, HtmlBlockTok, ParagraphTok("HtmlSpan", NoHref),
     HeadingTok, ParagraphTok("Emphasis", NoHref)}
        \cup {ParagraphTok("Image", h) : h \in ImageSources}
        \cup {ParagraphTok("Link", h) : h \in LinkTargets}
        \cup {ParagraphTok("AutoLink", h) : h \in AutoLinkTargets}
        \cup {ParagraphTok("ExtendedAutoLink", h) : h \in ExtendedAutoLinkTargets}
SpanDocs == SeqsUpTo(SpanBlocks, MaxSpans)

\* READMEs with relative and absolute images and links
MediaBlocks ==
    {TextPar, ParagraphTok("Image", ImageRel), ParagraphTok("Image", ImageAbs),
     ParagraphTok("Link", VideoRel), ParagraphTok("Link", PageRel)}
MediaDocs == SeqsUpTo(MediaBlocks, MaxSpans)

\* READMEs of one text paragraph, one image and one bare YouTube watch URL with
\* tracking parameters, in any order
Permutations3(a, b, c) ==
    {<<a, b, c>>, <<a, c, b>>, <<b, a, c>>, <<b, c, a>>, <<c, a, b>>, <<c, b, a>>}
ScenarioDocs ==
    UNION {Permutations3(TextPar, ParagraphTok("Image", h), ParagraphTok("ExtendedAutoLink", YoutubeWatch))
             : h \in ImageSources}

\* link targets of every scheme, with a plain or an address-like last segment, with
\* no, one or two suffixes, with and without a query string
ClassifierSchemes == {"", "http", "https", "ftp", "mailto"}
ClassifierTargets ==
    {Href(s, IF s \in {"", "mailto"} THEN "" ELSE "example.com", <<p>>, suf, <<>>, t, p = "a@b")
        : s \in ClassifierSchemes, p \in {"clip", "a@b"},
          suf \in {<<>>, <<".mp4">>, <<".png">>, <<".txt">>, <<".ogg", ".txt">>}, t \in BOOLEAN}

\* READMEs of one bracketed link to one of them
ClassifierDocs == {<<ParagraphTok("Link", h)>> : h \in ClassifierTargets}

\* READMEs of one bracketed link to a URL of the YouTube corpus
YoutubeDocs ==
    {<<ParagraphTok("Link", h)>>
        : h \in YOUTUBE_UNSUPPORTED_URLS \cup UNION {YoutubeCorpus[id] : id \in YoutubeIds}}

\* directive attributes: `heading` (the id of its text) and `items` (the parsed int)
\* values of the `items` attribute: numerals up to one more than the longest list, a
\* negative numeral, the empty value and a word
ItemsValues == {Digits[n + 1] : n \in 0..(MaxItems + 1)} \cup {"-1", "", "many"}

AttrSets ==
    {NoAttrs}
        \cup {[k \in {"heading"} |-> "Changes"]}
        \cup {[k \in {"items"} |-> n] : n \in ItemsValues}
        \cup {[k \in {"heading", "items"} |-> IF k = "heading" THEN "Changes" ELSE n] : n \in ItemsValues}

\* READMEs with changelog directives
ChangelogBlocks ==
    {TextPar, Exclude, DirectiveTok("foo", NoAttrs)}
        \cup {DirectiveTok("changelog", a) : a \in AttrSets}
ChangelogDocs == SeqsUpTo(ChangelogBlocks, MaxSpans)

\* the List at position p of a changelog file has the items 10p+1 .. 10p+n
ListAt(p, n) == ChangelogBlock("List", [j \in 1..n |-> 10 * p + j])
ChangelogChildren ==
    {<<>>}
        \cup {<<b>> : b \in {ChangelogBlock("Paragraph", <<>>)} \cup {ListAt(1, n) : n \in 1..MaxItems}}
        \cup {<<b1, b2>> : b1 \in {ChangelogBlock("Paragraph", <<>>)} \cup {ListAt(1, n) : n \in 1..MaxItems},
                           b2 \in {ChangelogBlock("Paragraph", <<>>)} \cup {ListAt(2, n) : n \in 1..MaxItems}}
ChangelogFiles == {NoChangelog} \cup {ChangelogFile(TRUE, c) : c \in ChangelogChildren}

\* sample lines: single-line and opening directive lines, a directive line with
\* attributes after the tag, the two opening lines of a markdown block, text, attribute
\* lines without and with a closing `-->`, and a line that is `-->` alone
ExcludeLine == OpenLine("exclude", "", "spaced")
IncludeLine == OpenLine("include", "", "spaced")
ChangelogOpenLine == OpenLine("Changelog", "", "none")
ChangelogAttrsLine == OpenLine("changelog", " heading: Changes", "spaced")
MarkdownOpenLine == OpenLine("markdown", "", "none")
MarkdownClosedLine == OpenLine("markdown", "", "spaced")
TextLine == PlainLine(<<"text">>, "none")
HeadingLine == PlainLine(<<"Heading", "Changes">>, "none")
ItemsCloseLine == PlainLine(<<"items", "1">>, "spaced")
ItemsTightLine == PlainLine(<<"items", "1">>, "tight")
CloseLine == PlainLine(<<"">>, "tight")
BlankLine == PlainLine(<<"">>, "none")

SourceLines ==
    {ExcludeLine, IncludeLine, ChangelogOpenLine, ChangelogAttrsLine, MarkdownOpenLine,
     MarkdownClosedLine, TextLine, HeadingLine, ItemsCloseLine, ItemsTightLine, CloseLine,
     BlankLine}

\* READMEs given as lines
SourceDocs == SeqsUpTo(SourceLines, MaxLines)

\* the changelog file of the READMEs given as lines
SourceChangelog == ChangelogFile(TRUE, <<ListAt(1, MaxItems)>>)

\* nothing outside get_asset_description is running
FindIdle == string = <<>> /\ scan = 0 /\ candidates = <<>> /\ find_status = "idle"
\* upload_or_update with every value of the flags of cfg, of the arguments and of the
\* parameter sources; `previous` tells whether previous_payload is non-empty
Context(call, max_retries, dry_run, no_prompt, save, save_auth, previous, have_username, have_password) ==
    [call |-> call, max_retries |-> max_retries, dry_run |-> dry_run, no_prompt |-> no_prompt,
     save |-> save, save_auth |-> save_auth, previous |-> previous,
     have_username |-> have_username, have_password |-> have_password]
NoContext == Context("none", 0, FALSE, FALSE, FALSE, FALSE, FALSE, FALSE, FALSE)
UploadContexts ==
    {Context("upload_or_update", 1, d, n, s, a, p, u, w)
        : d \in BOOLEAN, n \in BOOLEAN, s \in BOOLEAN, a \in BOOLEAN, p \in BOOLEAN,
          u \in BOOLEAN, w \in BOOLEAN}
\* runit of retry_with_auth(max_retries) given any block
RetryContexts ==
    {Context("retry_with_auth", m, FALSE, n, FALSE, FALSE, FALSE, u, w)
        : m \in 0..MaxRetries, n \in BOOLEAN, u \in BOOLEAN, w \in BOOLEAN}

UploadIdle ==
    /\ ctx = NoContext /\ auth_token = FALSE /\ retry = 0 /\ force = FALSE
    /\ confirmation = FALSE /\ calls = <<>> /\ up_pc = "idle"
\* values of dataclass fields: None, a string, or the dict asdict makes of a nested
\* dataclass
None == [none |-> TRUE, str |-> "", items |-> <<>>]
Str(s) == [none |-> FALSE, str |-> s, items |-> <<>>]
Dict(d) == [none |-> FALSE, str |-> "", items |-> d]

\* an Auth and a Config, with the fields of Config that matter to save
Auth(username, password, token) ==
    [cls |-> "Auth",
     fields |-> [k \in {"root", "username", "password", "token"} |->
                    IF k = "root" THEN Str("/project")
                    ELSE IF k = "username" THEN username
                    ELSE IF k = "password" THEN password ELSE token]]
ConfigObj(title, version, auth) ==
    [cls |-> "Config",
     fields |-> [k \in {"root", "readme", "title", "version", "dry_run", "auth"} |->
                    IF k = "root" THEN Str("/project")
                    ELSE IF k = "readme" THEN Str("/project/README.md")
                    ELSE IF k = "title" THEN title
                    ELSE IF k = "version" THEN version
                    ELSE IF k = "dry_run" THEN Str("False") ELSE auth]]
NoObj == [cls |-> "none", fields |-> <<>>]

Auths == {Auth(u, p, t) : u \in {None, Str("alice")}, p \in {None, Str("hunter2")},
                          t \in {None, Str("tok")}}
Configs == {ConfigObj(t, v, a) : t \in {None, Str("Asset")}, v \in {None, Str("1.0")},
                                 a \in {None} \cup {Dict(x.fields) : x \in Auths}}

SaveIdle == obj = NoObj /\ exclude = {} /\ written = <<>>
CatIdle == designator = <<>> /\ category = 0 /\ cat_pc = "idle"
VcsIdle == tree = <<>> /\ path_is_dir = FALSE /\ guessed = <<>>
AuxIdle == FindIdle /\ UploadIdle /\ SaveIdle /\ CatIdle /\ VcsIdle

\* the characters of the texts searched: `http://`, a letter, a space, sentence
\* punctuation, parentheses and the two marks of an entity reference
FindChars == {"H", "a", " ", ".", "(", ")", ";", "&"}
FindTexts == UNION {[1..n -> FindChars] : n \in 1..MaxText}

\* get_asset_description is not running
MdIdle ==
    /\ readme = <<>> /\ doc = <<>> /\ cfg = DefaultConfig /\ changelog = NoChangelog
    /\ pc = 1 /\ suppressed = <<>> /\ out = <<>> /\ previews = <<>>
    /\ status = "idle" /\ err = "" /\ errmsg = <<>> /\ cbresult = NoCall

Init ==
    /\ \/ /\ readme = <<>>
          /\ status = "rendering"
          /\ \/ doc \in DirectiveDocs /\ cfg = DefaultConfig /\ changelog = NoChangelog
             \/ doc \in SpanDocs /\ cfg \in AssetConfigs \cup RendererConfigs /\ changelog = NoChangelog
             \/ doc \in ScenarioDocs /\ cfg \in AssetConfigs /\ changelog = NoChangelog
             \/ doc \in MediaDocs /\ cfg \in BitbucketConfigs /\ changelog = NoChangelog
             \/ doc \in YoutubeDocs /\ cfg = DefaultConfig /\ changelog = NoChangelog
             \/ doc \in ClassifierDocs /\ cfg = DefaultConfig /\ changelog = NoChangelog
             \/ doc \in ChangelogDocs /\ cfg = DefaultConfig /\ changelog \in ChangelogFiles
       \/ /\ readme \in SourceDocs
          /\ status = "parsing"
          /\ doc = <<>>
          /\ cfg = DefaultConfig
          /\ changelog = SourceChangelog
    /\ pc = 1
    /\ suppressed = <<>>
    /\ out = <<>>
    /\ previews = <<>>
    /\ err = ""
    /\ errmsg = <<>>
    /\ cbresult = NoCall
    /\ AuxIdle

(***************************************************************************)
(* Steps.                                                                  *)
(***************************************************************************)
At(kind) == status = "rendering" /\ pc <= Len(doc) /\ doc[pc].kind = kind

\* what a callback of this configuration may return
ResultsOf(c) ==
    IF c.mode = "renderer" /\ c.callbacks THEN GenericResults ELSE {Returned("None", <<>>, <<>>)}

\* an Emit whose previews list keeps one entry for each distinct preview
Emit_deduplicates(o) ==
    /\ previews' = previews \o SelectSeq(o.added, LAMBDA p : \A n \in 1..Len(previews) : previews[n] # p)
    /\ cbresult' = o.result
    /\ IF o.error = ""
       THEN /\ out' = out \o o.frags
            /\ pc' = NextToken(doc, pc + 1)
            /\ UNCHANGED <<status, err>>
       ELSE /\ status' = "error"
            /\ err' = o.error
            /\ UNCHANGED <<out, pc>>

\* the handler emitted o: its fragments join the output and rendering moves on, or its
\* exception leaves render() and get_asset_description
Emit(o) ==
    /\ previews' = previews \o o.added
    /\ cbresult' = o.result
    /\ IF o.error = ""
       THEN /\ out' = out \o o.frags
            /\ pc' = NextToken(doc, pc + 1)
            /\ UNCHANGED <<status, err>>
       ELSE /\ status' = "error"
            /\ err' = o.error
            /\ UNCHANGED <<out, pc>>

\* Document(cfg.readme.read_text()): the README is tokenized; a directive whose body
\* holds a line without a colon makes MetaItem raise ValueError
Tokenize ==
    /\ status = "parsing"
    /\ IF \E n \in 1..Len(tokenize(readme)) : tokenize(readme)[n] = ErrorTok
       THEN /\ status' = "error"
            /\ err' = "ValueError"
            /\ doc' = doc
       ELSE /\ status' = "rendering"
            /\ err' = err
            /\ doc' = tokenize(readme)
    /\ UNCHANGED <<readme, cfg, changelog, pc, suppressed, out, previews, errmsg, cbresult>>
    /\ UNCHANGED auxvars

\* render_map["Document"] is maybe_render(render_document, document): when an exception
\* leaves a block, and when the last block is done, its finally clause runs
\* unsuppress(document); the Document is token 0
render_document_finally(sup, error) ==
    IF error = "" THEN sup ELSE unsuppress(sup, 0)

\* render_map["Paragraph"]: maybe_render(render_paragraph, token), finally unsuppress(token)
RenderParagraph ==
    /\ At("Paragraph")
    /\ \E g \in ResultsOf(cfg) :
          LET o == maybe_render(suppressed, render_paragraph(cfg, doc[pc], pc, suppressed, g)) IN
              /\ Emit(o)
              /\ suppressed' = render_document_finally(unsuppress(suppressed, pc), o.error)
    /\ UNCHANGED <<readme, doc, cfg, changelog, errmsg>>
    /\ UNCHANGED auxvars

\* render_map["Heading"]: maybe_render(render_heading, token), finally unsuppress(token)
RenderHeading ==
    /\ At("Heading")
    /\ Emit(maybe_render(suppressed, render_heading(pc)))
    /\ suppressed' = unsuppress(suppressed, pc)
    /\ UNCHANGED <<readme, doc, cfg, changelog, errmsg>>
    /\ UNCHANGED auxvars

\* render_map["HtmlBlock"]: Renderer.render_html_block, which maybe_render does not wrap
RenderHtmlBlock ==
    /\ At("HtmlBlock")
    /\ \E g \in ResultsOf(cfg) :
          LET o == delegated(cfg, "HtmlBlock", doc[pc], pc, suppressed, g) IN
              /\ Emit(o)
              /\ suppressed' = render_document_finally(suppressed, o.error)
    /\ UNCHANGED <<readme, doc, cfg, changelog, errmsg>>
    /\ UNCHANGED auxvars

\* render_map["Directive"]: Renderer.render_directive, which maybe_render does not wrap
RenderDirective ==
    /\ At("Directive")
    /\ LET r == render_directive(doc[pc], pc, Parent(doc, pc), suppressed, changelog) IN
          /\ Emit(Outcome(r.frags, <<>>, r.error, NoCall))
          /\ suppressed' = render_document_finally(r.suppressed, r.error)
          /\ errmsg' = r.msg
    /\ UNCHANGED <<readme, doc, cfg, changelog>>
    /\ UNCHANGED auxvars

\* render_map["MarkdownDirective"]: Renderer.render_markdown_directive, which maybe_render
\* does not wrap; blocks_to_lines then renders the children
RenderMarkdownDirective ==
    /\ At("MarkdownDirective")
    /\ pc' = NextToken(doc, pc + 1)
    /\ UNCHANGED <<readme, doc, cfg, changelog, suppressed, out, previews, status, err, errmsg, cbresult>>
    /\ UNCHANGED auxvars

\* render_document returns and maybe_render's finally clause runs unsuppress(document);
\* get_asset_description returns (description, previews)
Finish ==
    /\ status = "rendering"
    /\ pc > Len(doc)
    /\ status' = "done"
    /\ suppressed' = unsuppress(suppressed, 0)
    /\ UNCHANGED <<readme, doc, cfg, changelog, pc, out, previews, err, errmsg, cbresult>>
    /\ UNCHANGED auxvars

Next ==
    \/ Tokenize
    \/ RenderParagraph
    \/ RenderHeading
    \/ RenderHtmlBlock
    \/ RenderDirective
    \/ RenderMarkdownDirective
    \/ Finish

Spec == Init /\ [][Next]_vars

(***************************************************************************)
(* ExtendedAutoLink.find(string), called by the span tokenizer on the text *)
(* of an inline run.                                                       *)
(***************************************************************************)
InitFind ==
    /\ MdIdle
    /\ UploadIdle
    /\ SaveIdle
    /\ CatIdle
    /\ VcsIdle
    /\ string \in FindTexts
    /\ scan = 1
    /\ candidates = <<>>
    /\ find_status = "finding"

\* one iteration of `for match in cls.pattern.finditer(string)`
FindMatch ==
    /\ find_status = "finding"
    /\ NextMatch(string, scan) # 0
    /\ LET p == NextMatch(string, scan)
           r == FindStep(string, p) IN
          IF r.error # ""
          THEN /\ find_status' = r.error
               /\ UNCHANGED <<scan, candidates>>
          ELSE /\ candidates' = candidates \o r.found
               /\ scan' = RunEnd(string, p) + 1
               /\ UNCHANGED find_status
    /\ UNCHANGED <<string, find_others>>

\* finditer is exhausted: return candidates
FindReturn ==
    /\ find_status = "finding"
    /\ NextMatch(string, scan) = 0
    /\ find_status' = "returned"
    /\ UNCHANGED <<string, scan, candidates, find_others>>

NextFind ==
    \/ FindMatch
    \/ FindReturn

SpecFind == InitFind /\ [][NextFind]_vars

(***************************************************************************)
(* upload_or_update and retry_with_auth (main.py).  `calls` records what   *)
(* leaves the function: requests to the library, prompts, writes of the    *)
(* configuration files.                                                    *)
(***************************************************************************)
\* what the comparison with the existing listing and its pending edits finds
Comparisons == {"same", "pending", "changed"}

\* the branch taken after `if save`: nothing more in a dry run, the upload when
\* confirmed, "Aborted!" otherwise
AfterPrepare_ignores_dry_run(c, confirmed) == IF confirmed THEN "attempt" ELSE "conclude"
AfterPrepare(c, confirmed) ==
    IF c.dry_run THEN "conclude" ELSE IF confirmed THEN "attempt" ELSE "conclude"

\* the block retry_with_auth runs
Block(c) == IF c.call = "upload_or_update" THEN "upload_or_update_asset" ELSE "block"

InitUpload ==
    /\ MdIdle
    /\ FindIdle
    /\ SaveIdle
    /\ CatIdle
    /\ VcsIdle
    /\ \/ ctx \in UploadContexts /\ up_pc = "prepare"
       \/ ctx \in RetryContexts /\ up_pc = "attempt"
    /\ auth_token \in BOOLEAN
    /\ retry = ctx.max_retries
    /\ force = FALSE
    /\ confirmation = FALSE
    /\ calls = <<>>

\* upload_or_update up to its `if cfg.dry_run`: the payload, the pending edits, the
\* comparisons, the confirmation, and save_cfg(cfg)
Prepare ==
    /\ up_pc = "prepare"
    /\ \E cmp \in Comparisons, answer \in BOOLEAN :
          LET confirmed == cmp = "changed" /\ (ctx.no_prompt \/ ctx.dry_run \/ answer) IN
              /\ (cmp = "pending") => ctx.previous
              /\ (cmp = "same") => ctx.previous
              /\ confirmation' = confirmed
              /\ calls' = calls
                     \o (IF ctx.previous THEN <<"get_pending_edits">> ELSE <<>>)
                     \o (IF cmp = "changed" /\ ~ctx.no_prompt /\ ~ctx.dry_run THEN <<"confirm">> ELSE <<>>)
                     \o (IF ctx.save THEN <<"save_cfg">> ELSE <<>>)
              /\ up_pc' = AfterPrepare(ctx, confirmed)
    /\ retry' = ctx.max_retries
    /\ UNCHANGED <<ctx, auth_token, force, upload_others>>

\* the username and password retry_with_auth prompts for in an iteration
Prompted(c, f) ==
    IF (c.have_username \/ c.have_password) /\ (f \/ ~(c.have_username /\ c.have_password))
    THEN (IF c.have_username THEN <<>> ELSE <<"prompt_username">>)
            \o (IF c.have_password THEN <<>> ELSE <<"prompt_password">>)
    ELSE <<>>

\* have_full_auth at the end of the try block
have_full_auth(c, f) ==
    \/ c.have_username /\ c.have_password
    \/ (c.have_username \/ c.have_password) /\ (f \/ ~(c.have_username /\ c.have_password))

\* login_and_update_token(force): whether it calls rest_api.login
LogsIn(tok, f) == ~(tok /\ ~f)

\* an except clause that retries even with full authentication data
Retries_with_full_auth(c, r, f) == r # 0 /\ ~c.no_prompt

\* the except clause retries
Retries(c, r, f) == r # 0 /\ ~c.no_prompt /\ ~have_full_auth(c, f)

\* one iteration of retry_with_auth's loop: the prompts, login_and_update_token, the
\* block, and the except clause when rest_api.login or the block raises HTTPRequestError
Attempt ==
    /\ up_pc = "attempt"
    /\ LET full == have_full_auth(ctx, force)
           login == LogsIn(auth_token, force \/ full)
           before == calls \o Prompted(ctx, force) \o <<"login_and_update_token">>
                        \o (IF login THEN <<"login">> ELSE <<>>)
       IN  \E outcome \in {"ok", "login raises", "block raises"} :
              /\ (outcome = "login raises") => login
              /\ IF outcome = "ok"
                 THEN /\ calls' = before \o <<Block(ctx)>>
                      /\ auth_token' = TRUE
                      /\ up_pc' = IF ctx.call = "upload_or_update" THEN "conclude" ELSE "returned"
                      /\ UNCHANGED <<retry, force>>
                 ELSE /\ IF Retries(ctx, retry, force)
                         THEN /\ calls' = before
                                    \o (IF outcome = "block raises" THEN <<Block(ctx)>> ELSE <<>>)
                                    \o <<"invalidate_token">>
                              /\ auth_token' = FALSE
                              /\ force' = TRUE
                              /\ retry' = retry - 1
                              /\ UNCHANGED up_pc
                         ELSE /\ calls' = before
                                    \o (IF outcome = "block raises" THEN <<Block(ctx)>> ELSE <<>>)
                              /\ auth_token' = (IF outcome = "block raises" THEN TRUE ELSE auth_token)
                              /\ up_pc' = "raised"
                              /\ UNCHANGED <<retry, force>>
    /\ UNCHANGED <<ctx, confirmation, upload_others>>

\* the end of upload_or_update: save_cfg(cfg.auth) when save_auth, and the return
Conclude ==
    /\ up_pc = "conclude"
    /\ calls' = calls \o (IF ctx.save_auth THEN <<"save_auth">> ELSE <<>>)
    /\ up_pc' = "returned"
    /\ UNCHANGED <<ctx, auth_token, retry, force, confirmation, upload_others>>

NextUpload ==
    \/ Prepare
    \/ Attempt
    \/ Conclude

SpecUpload == InitUpload /\ [][NextUpload]_vars

(***************************************************************************)
(* ConfigMixin.save (config.py): what Auth.save and Config.save write.     *)
(***************************************************************************)
\* a VOLATILE that holds `root` alone
VOLATILE_root_only(cls) == {"root"}

\* Auth.VOLATILE and Config.VOLATILE
VOLATILE(cls) ==
    IF cls = "Auth" THEN {"root", "password"}
    ELSE {"version", "commit", "previous_payload", "no_prompt", "quiet", "dry_run", "auth"}

FILE_NAME(cls) == IF cls = "Auth" THEN "gdasset-auth.toml" ELSE "gdasset.toml"

\* the table save builds from asdict(self)
Table(o, excl) ==
    [k \in {f \in DOMAIN o.fields : /\ ~o.fields[f].none
                                     /\ f \notin VOLATILE(o.cls)
                                     /\ f \notin excl} |-> o.fields[k]]

InitSave ==
    /\ MdIdle
    /\ FindIdle
    /\ UploadIdle
    /\ CatIdle
    /\ VcsIdle
    /\ obj \in Auths \cup Configs
    /\ exclude \in SUBSET (DOMAIN obj.fields)
    /\ written = <<>>

\* self.save(exclude=exclude): the file is written with the table
Save ==
    /\ obj # NoObj
    /\ written = <<>>
    /\ written' = [f \in {FILE_NAME(obj.cls)} |-> Table(obj, exclude)]
    /\ UNCHANGED <<obj, exclude, save_others>>

NextSave == Save

SpecSave == InitSave /\ [][NextSave]_vars

(***************************************************************************)
(* find_category_id and find_category_name (rest_api.py).  Names and       *)
(* designators are sequences of characters.                                *)
(***************************************************************************)
\* KNOWN_LIBRARY_CATEGORIES[OFFICIAL_LIBRARY_ROOT], as id -> (group, name)
Addons == <<"A", "d", "d", "o", "n", "s">>
Projects == <<"P", "r", "o", "j", "e", "c", "t", "s">>
CATEGORY_ID_MAP ==
    <<
      <<Addons, <<"2", "D", " ", "T", "o", "o", "l", "s">> >>,
      <<Addons, <<"3", "D", " ", "T", "o", "o", "l", "s">> >>,
      <<Addons, <<"S", "h", "a", "d", "e", "r", "s">> >>,
      <<Addons, <<"M", "a", "t", "e", "r", "i", "a", "l", "s">> >>,
      <<Addons, <<"T", "o", "o", "l", "s">> >>,
      <<Addons, <<"S", "c", "r", "i", "p", "t", "s">> >>,
      <<Addons, <<"M", "i", "s", "c">> >>,
      <<Projects, <<"T", "e", "m", "p", "l", "a", "t", "e", "s">> >>,
      <<Projects, Projects>>,
      <<Projects, <<"D", "e", "m", "o", "s">> >>
    >>
CategoryIds == DOMAIN CATEGORY_ID_MAP

\* str.lower(), over the letters of the category names
LowerChar(c) ==
    CASE c = "A" -> "a" [] c = "D" -> "d" [] c = "M" -> "m" [] c = "P" -> "p"
      [] c = "S" -> "s" [] c = "T" -> "t" [] OTHER -> c
Lower(s) == [i \in DOMAIN s |-> LowerChar(s[i])]

\* str.startswith
StartsWith(s, prefix) == Len(prefix) <= Len(s) /\ SubSeq(s, 1, Len(prefix)) = prefix

\* the index of the first character of s that is `/`, `_` or a space; 0 if none
RECURSIVE FirstSeparator(_, _)
FirstSeparator(s, i) ==
    IF i > Len(s) THEN 0
    ELSE IF s[i] \in {"/", "_", " "} THEN i
    ELSE FirstSeparator(s, i + 1)

\* re.split('[/_ ]', designator, maxsplit=1), lower-cased, as <<group_cand, name_cand>>
Parts(s) ==
    LET i == FirstSeparator(s, 1) IN
        IF i = 0 THEN << <<>>, Lower(s) >>
        ELSE <<Lower(SubSeq(s, 1, i - 1)), Lower(SubSeq(s, i + 1, Len(s)))>>

\* the ids of `candidates`
Candidates(s) ==
    {id \in CategoryIds :
        /\ StartsWith(Lower(CATEGORY_ID_MAP[id][1]), Parts(s)[1])
        /\ StartsWith(Lower(CATEGORY_ID_MAP[id][2]), Parts(s)[2])}

\* the designators: for every category `Group/Name`, the name alone, and every shortened
\* form of both, as written and in lower case
Prefixes(s) == {SubSeq(s, 1, n) : n \in 1..Len(s)}
Designators ==
    LET forms == UNION {{g \o <<"/">> \o n : g \in Prefixes(CATEGORY_ID_MAP[id][1]),
                                               n \in Prefixes(CATEGORY_ID_MAP[id][2])}
                            \cup Prefixes(CATEGORY_ID_MAP[id][2]) : id \in CategoryIds}
    IN  forms \cup {Lower(d) : d \in forms}

InitCategory ==
    /\ MdIdle
    /\ FindIdle
    /\ UploadIdle
    /\ SaveIdle
    /\ VcsIdle
    /\ \/ designator \in Designators /\ category = 0 /\ cat_pc = "id"
       \/ designator = <<>> /\ category \in CategoryIds /\ cat_pc = "name"

\* group, name = find_category_name(id), made into the designator f"{group}/{name}"
FindCategoryName ==
    /\ cat_pc = "name"
    /\ designator' = CATEGORY_ID_MAP[category][1] \o <<"/">> \o CATEGORY_ID_MAP[category][2]
    /\ cat_pc' = "id"
    /\ UNCHANGED <<category, cat_others>>

\* find_category_id(designator): the id of the single candidate, or ValueError
FindCategoryId ==
    /\ cat_pc = "id"
    /\ IF Cardinality(Candidates(designator)) = 1
       THEN /\ category' = CHOOSE id \in Candidates(designator) : TRUE
            /\ cat_pc' = "returned"
       ELSE /\ category' = category
            /\ cat_pc' = "ValueError"
    /\ UNCHANGED <<designator, cat_others>>

NextCategory ==
    \/ FindCategoryName
    \/ FindCategoryId

SpecCategory == InitCategory /\ [][NextCategory]_vars

(***************************************************************************)
(* guess_vcs_type (vcs/__init__.py).  tree[n] is the set of the            *)
(* implementations that have a repository rooted at the n-th entry of the  *)
(* chain root, ..., parent, PATH.                                          *)
(***************************************************************************)
\* IMPLS, in order
IMPLS == <<"hg", "git">>

\* impl.has_repo(dir) for the entry of the chain at index n
has_repo(impl, t, n) == impl \in t[n]

\* dir_and_parents(path): the indexes of PATH (when it is a directory) and of its
\* parents, closest first
dir_and_parents(t, is_dir) ==
    LET last == Len(t) IN
        [k \in 1..(IF is_dir THEN last ELSE last - 1) |-> (IF is_dir THEN last + 1 ELSE last) - k]

\* the first impl of IMPLS from index i on that has a repository at n, or "None"
RECURSIVE FirstImpl(_, _, _)
FirstImpl(t, n, i) ==
    IF i > Len(IMPLS) THEN "None"
    ELSE IF has_repo(IMPLS[i], t, n) THEN IMPLS[i]
    ELSE FirstImpl(t, n, i + 1)

\* a guess_vcs_type that tests each directory of the chain
RECURSIVE guess_vcs_type_each_dir(_, _, _)
guess_vcs_type_each_dir(t, dirs, k) ==
    IF k > Len(dirs) THEN <<"None", -1>>
    ELSE IF FirstImpl(t, dirs[k], 1) # "None" THEN <<FirstImpl(t, dirs[k], 1), dirs[k]>>
    ELSE guess_vcs_type_each_dir(t, dirs, k + 1)

\* guess_vcs_type(path): for each dir of the chain, for each impl, `impl.has_repo(path)`
\* is tested on PATH itself and (impl, path) is returned
RECURSIVE guess_vcs_type(_, _, _)
guess_vcs_type(t, dirs, k) ==
    IF k > Len(dirs) THEN <<"None", -1>>
    ELSE IF FirstImpl(t, Len(t), 1) # "None" THEN <<FirstImpl(t, Len(t), 1), Len(t)>>
    ELSE guess_vcs_type(t, dirs, k + 1)

\* chains of up to MaxDepth ancestors and PATH, with any repositories; a PATH that is a
\* file has a parent and holds no repository
Trees == UNION {[1..n -> SUBSET {"hg", "git"}] : n \in 1..(MaxDepth + 1)}

InitVcs ==
    /\ MdIdle
    /\ FindIdle
    /\ UploadIdle
    /\ SaveIdle
    /\ CatIdle
    /\ tree \in Trees
    /\ path_is_dir \in BOOLEAN
    /\ ~path_is_dir => (Len(tree) > 1 /\ tree[Len(tree)] = {})
    /\ guessed = <<>>

GuessVcsType ==
    /\ tree # <<>>
    /\ guessed = <<>>
    /\ guessed' = guess_vcs_type(tree, dir_and_parents(tree, path_is_dir), 1)
    /\ UNCHANGED <<tree, path_is_dir, vcs_others>>

NextVcs == GuessVcsType

SpecVcs == InitVcs /\ [][NextVcs]_vars

\* a call that was started runs on: the loop of retry_with_auth and the statements of
\* upload_or_update are sequential code
SpecUploadFair == InitUpload /\ [][NextUpload]_vars /\ WF_vars(NextUpload)

(***************************************************************************)
(* Properties.                                                             *)
(***************************************************************************)
\* the handler of the token at pc is about to run
Rendering == status = "rendering" /\ pc <= Len(doc)

IsDirective(i, tag) == doc[i].kind = "Directive" /\ doc[i].tag = tag
IsTextPar(i) == doc[i].kind = "Paragraph" /\ doc[i].span = "RawText"

RECURSIVE UnderSuppressed(_, _, _)
\* the token at i lies under a block of the suppression set: its parent, or the parent
\* of the block that holds it, and so on up to the Document
UnderSuppressed(d, i, sup) ==
    \/ Parent(d, i) \in Range(sup)
    \/ Parent(d, i) # 0 /\ UnderSuppressed(d, Parent(d, i), sup)

\* the token at i comes right after an `include` directive that has an `exclude`
\* directive with the same parent before it
FollowsExcludeInclude(i) ==
    /\ i > 2
    /\ IsDirective(i - 1, "include")
    /\ \E j \in 1..(i - 2) : IsDirective(j, "exclude") /\ Parent(doc, j) = Parent(doc, i)

ExcludeThenParagraphs(d) ==
    /\ Len(d) >= 3
    /\ d[1] = Exclude
    /\ \A i \in 2..Len(d) : d[i] = TextPar

\* the texts of the paragraphs k .. Len(d) of d
TextsFrom(d, k) == [j \in 1..(Len(d) - k + 1) |-> Text(k + j - 1)]

\* C2 as stated: suppression is one-shot, so of the paragraphs that follow an `exclude`
\* directive only the first is skipped; for [exclude, A, B], A is skipped and B rendered.
C2_OneShot_AsStated ==
    (ExcludeThenParagraphs(doc) /\ status = "done") => out = TextsFrom(doc, 3)

\* C2 (amended): a node that is skipped is dropped from the suppression set only if it is
\* in the set itself; `exclude` puts the parent block there, so skipping a paragraph
\* leaves the set as it is and every paragraph that follows the `exclude` directive is
\* skipped: for [exclude, A, B] both A and B are skipped and the description is empty.
C2_SuppressionPersists ==
    /\ [][(Rendering /\ doc[pc].kind = "Paragraph" /\ suppressed # <<>>)
             => (out' = out /\ suppressed' = suppressed /\ previews' = previews)]_vars
    /\ []((ExcludeThenParagraphs(doc) /\ status = "rendering" /\ pc > 1) => suppressed = <<0>>)
    /\ []((ExcludeThenParagraphs(doc) /\ status = "done") => out = <<>>)

\* C2's case: [exclude, A, B] was rendered and nothing was emitted
C2_Witness ==
    /\ doc = <<Exclude, TextPar, TextPar>>
    /\ status = "done"
    /\ out = <<>>

\* the index of the paragraph of d whose span is of the given kind
SpanIndex(d, span) == CHOOSE i \in 1..Len(d) : d[i].span = span

\* the URL a rewrite function of get_asset_payload turns a relative image URL into
RawContentUrl(href) == [href EXCEPT !.scheme = "https", !.host = "raw.githubusercontent.com"]

\* the previews of a README of ScenarioDocs: the image's source (rewritten when it is
\* relative and the caller supplied a rewrite function) and the video's canonical URL
ScenarioImagePreview(d, c) ==
    LET src == d[SpanIndex(d, "Image")].href IN
    Preview("image", IF c.prep /\ src.host = "" THEN RawContentUrl(src) ELSE src)
ScenarioVideoPreview(d) ==
    Preview("video",
            [scheme |-> "https", host |-> "youtube.com", path |-> <<"watch">>, suffixes |-> <<>>,
             v |-> d[SpanIndex(d, "ExtendedAutoLink")].href.v, tracking |-> FALSE, email |-> FALSE,
             url |-> <<>>, amp |-> <<>>])

LinkStep ==
    /\ Rendering
    /\ doc[pc].kind = "Paragraph"
    /\ doc[pc].span \in {"Link", "AutoLink", "ExtendedAutoLink"}
    /\ cfg.mode = "asset"
    /\ suppressed = <<>>

IsVideo(href) == normalise_video_link(href) # <<>>

\* the caller's rewrite function raises for this URL: a relative URL, with
\* get_asset_payload's functions and a repository on BitBucket
RewriteRaises(href) == cfg.prep /\ cfg.provider = "bitbucket" /\ href.host = ""

\* C4 as stated: an interesting link that is video-canonicalizable adds the preview
\* {video, canonical URL}, an interesting link with an image suffix adds the preview
\* {image, target}, neither emits anything, for both values of unwrap_links; a link that
\* is not interesting adds no preview.
C4_MediaLinksBecomePreviews_AsStated ==
    [][LinkStep =>
         /\ (is_interesting_link(doc[pc].href) /\ IsVideo(doc[pc].href))
               => /\ previews' = Append(previews, Preview("video", normalise_video_link(doc[pc].href)[1]))
                  /\ out' = out
         /\ (is_interesting_link(doc[pc].href) /\ is_image_link(doc[pc].href))
               => /\ previews' = Append(previews, Preview("image", doc[pc].href))
                  /\ out' = out
         /\ ~is_interesting_link(doc[pc].href) => previews' = previews]_vars

\* C4 (amended): an interesting link that is video-canonicalizable adds exactly the
\* preview {video, prep_image_func(canonical URL)}; an interesting link with an image
\* suffix that is not video-canonicalizable adds exactly the preview
\* {image, prep_image_func(target)}; neither emits anything nor raises when
\* prep_image_func returns, for both values of unwrap_links; a link that is not
\* interesting adds no preview.
C4_MediaLinksBecomePreviews ==
    [][LinkStep =>
         /\ (is_interesting_link(doc[pc].href) /\ IsVideo(doc[pc].href)
                 /\ ~RewriteRaises(normalise_video_link(doc[pc].href)[1]))
               => /\ previews' = Append(previews,
                                        Preview("video", prep_image_func(cfg, normalise_video_link(doc[pc].href)[1])))
                  /\ out' = out
                  /\ status' = "rendering"
         /\ (is_interesting_link(doc[pc].href) /\ is_image_link(doc[pc].href) /\ ~IsVideo(doc[pc].href)
                 /\ ~RewriteRaises(doc[pc].href))
               => /\ previews' = Append(previews, Preview("image", prep_image_func(cfg, doc[pc].href)))
                  /\ out' = out
                  /\ status' = "rendering"
         /\ ~is_interesting_link(doc[pc].href) => previews' = previews]_vars

\* C4's case: a link to clip.mp4.png, which is a video and has an image suffix, became a
\* video preview, with unwrap_links false
C4_Witness ==
    /\ doc = <<ParagraphTok("Link", VideoImage)>>
    /\ ~cfg.unwrap_links
    /\ pc = 2
    /\ previews = <<Preview("video", VideoImage)>>
    /\ out = <<>>

\* the link is not turned into a preview
StaysInText(href) ==
    ~is_interesting_link(href) \/ (~IsVideo(href) /\ ~is_image_link(href))

\* C5: of the links that are not turned into previews, the ones that are not interesting
\* keep their original syntax whatever unwrap_links is, and the others are emitted as the
\* bare target when unwrap_links is true and keep their original syntax when it is false.
C5_RemainingLinks_AsStated ==
    [][(LinkStep /\ StaysInText(doc[pc].href)) =>
         IF ~is_interesting_link(doc[pc].href) THEN out' = Append(out, Markup(pc))
         ELSE IF cfg.unwrap_links THEN out' = Append(out, Bare(doc[pc].href))
         ELSE out' = Append(out, Markup(pc))]_vars

\* process_image is about to be called with the image at pc
ImageStep ==
    /\ Rendering
    /\ doc[pc].kind = "Paragraph"
    /\ doc[pc].span = "Image"
    /\ cfg.mode = "asset"
    /\ suppressed = <<>>

\* C6 as stated: the image callback records the preview {image, prep_image_func(src)} and
\* the image is then rendered by the default rendering.
C6_ImageCallback_AsStated ==
    [][ImageStep =>
         /\ previews' = Append(previews, Preview("image", prep_image_func(cfg, doc[pc].href)))
         /\ out' = Append(out, Markup(pc))]_vars

\* C6 (amended): the image callback records exactly the preview
\* {image, prep_image_func(src)} for every image that is rendered (prep_image_func
\* returning) and returns None, so the image emits nothing: the default rendering of the
\* image does not run.
C6_ImageCallback ==
    [][(ImageStep /\ ~RewriteRaises(doc[pc].href)) =>
         /\ previews' = Append(previews, Preview("image", prep_image_func(cfg, doc[pc].href)))
         /\ cbresult'.result = "None"
         /\ out' = out
         /\ status' = "rendering"]_vars

\* C6's case: a relative image was rendered with a rewrite function supplied
C6_Witness ==
    /\ doc = <<ParagraphTok("Image", ImageRel)>>
    /\ cfg.prep
    /\ pc = 2
    /\ previews = <<Preview("image", RawContentUrl(ImageRel))>>
    /\ out = <<>>

\* a delegated handler is about to run on the token at pc while nothing is suppressed
DelegatedStep ==
    /\ Rendering
    /\ suppressed = <<>>
    /\ \/ doc[pc].kind = "HtmlBlock"
       \/ doc[pc].kind = "Paragraph" /\ doc[pc].span \notin {"RawText", "Emphasis"}

\* C7: for each delegated handler, while nothing is suppressed: without a callback, or
\* when the callback returns True, the default rendering of the token is emitted; when the
\* callback returns None or another falsy value, nothing is emitted and rendering goes
\* on; when the callback returns a list, that list is emitted.
C7_Delegated_AsStated ==
    [][DelegatedStep =>
         /\ (~HasCallback(cfg) \/ cbresult'.result = "True")
               => (out' = Append(out, Markup(pc)) /\ status' = "rendering")
         /\ (HasCallback(cfg) /\ cbresult'.result \in {"None", "False"})
               => (out' = out /\ status' = "rendering")
         /\ (HasCallback(cfg) /\ cbresult'.result = "Frags")
               => (out' = out \o cbresult'.frags /\ status' = "rendering")]_vars

\* C8: with the rewrite functions supplied, the source of every image goes through
\* prep_image_func before its preview is recorded, and the target of every link that
\* stays in the description goes through prep_link_func before it is emitted.
C8_RewriteFunctions_AsStated ==
    [][/\ ImageStep
            => previews' = Append(previews, Preview("image", prep_image_func(cfg, doc[pc].href)))
       /\ (LinkStep /\ is_interesting_link(doc[pc].href) /\ StaysInText(doc[pc].href) /\ cfg.unwrap_links)
            => out' = Append(out, Bare(prep_link_func(cfg, doc[pc].href)))]_vars

\* a `changelog` directive is about to be rendered, the changelog file exists and has a
\* list, and nothing is suppressed
ChangelogStep ==
    /\ Rendering
    /\ IsDirective(pc, "changelog")
    /\ changelog.exists
    /\ FirstList(changelog.children) # 0
    /\ suppressed = <<>>

\* the list items among the fragments o
ItemsIn(o) == SelectSeq(o, LAMBDA f : f.k = "item")

\* the first n elements of s, all of them when it has fewer
FirstN(s, n) == [j \in 1..(IF n <= Len(s) THEN n ELSE Len(s)) |-> s[j]]

\* the items of the first top-level list of the changelog file
FirstListItems == changelog.children[FirstList(changelog.children)].items

\* C9: a `changelog` directive without an item-count limit emits every item of the first
\* top-level list of the changelog file, in order; with the limit N it emits the first
\* min(N, length) items, in order.
C9_ChangelogItems_AsStated ==
    [][(ChangelogStep /\ ("items" \in DOMAIN doc[pc].attrs => doc[pc].attrs["items"] \in Range(Digits))) =>
         ItemsIn(out') = ItemsIn(out) \o
            ItemFrags(IF "items" \in DOMAIN doc[pc].attrs
                      THEN FirstN(FirstListItems, int(doc[pc].attrs["items"]))
                      ELSE FirstListItems)]_vars

\* C10: the heading of a `changelog` directive is optional: with a `heading` attribute
\* the directive renders the paragraph "H:" and then the list, without one rendering
\* succeeds and the directive renders the list alone.
C10_OptionalHeading_AsStated ==
    [][ChangelogStep =>
         /\ status' = "rendering"
         /\ out' = out
               \o (IF "heading" \in DOMAIN doc[pc].attrs THEN <<HeadingPar(pc)>> ELSE <<>>)
               \o ItemFrags(TruncatedItems(FirstListItems, doc[pc].attrs))]_vars

\* the changelog file is missing, or has no list among its top-level children
NoChangelogList == ~changelog.exists \/ FirstList(changelog.children) = 0

\* C11: when a `changelog` directive is rendered and the changelog file does not exist
\* or has no top-level list, the render pass ends with a GdAssetError: nothing more is
\* emitted or recorded, and get_asset_description never returns for a README that
\* holds such a directive.
C11_ChangelogErrors ==
    [][/\ (Rendering /\ IsDirective(pc, "changelog") /\ NoChangelogList)
            => /\ status' = "error"
               /\ err' = "GdAssetError"
               /\ out' = out
               /\ previews' = previews
       /\ status = "error" => status' = "error"
       /\ status' = "done"
            => \A i \in 1..Len(doc) : IsDirective(i, "changelog") => ~NoChangelogList]_vars

\* C11's case: a changelog directive was rendered after a paragraph, the changelog file
\* exists and holds a paragraph but no list, and the pass ended with GdAssetError
C11_Witness ==
    /\ status = "error"
    /\ err = "GdAssetError"
    /\ pc = 2
    /\ IsDirective(2, "changelog")
    /\ changelog.exists
    /\ changelog.children # <<>>
    /\ FirstList(changelog.children) = 0
    /\ out = <<Text(1)>>

\* the directive at index i carries an item count that is not an integer
MalformedItems(i) ==
    /\ "items" \in DOMAIN doc[i].attrs
    /\ doc[i].attrs["items"] # ""
    /\ ~IsIntLiteral(doc[i].attrs["items"])

\* C12: rendering a `changelog` directive whose item count is not an integer (and
\* that has a heading, so that the item count is read whenever the changelog file has a
\* list) ends the render pass with a GdAssetError, never with another exception type,
\* and no description is returned.
C12_MalformedValue_AsStated ==
    [][(Rendering /\ IsDirective(pc, "changelog") /\ MalformedItems(pc)
            /\ "heading" \in DOMAIN doc[pc].attrs)
            => (status' = "error" /\ err' = "GdAssetError")]_vars

\* the tags render_directive handles
SupportedTags == {"include", "exclude", "changelog"}

\* C13: rendering a directive whose tag is none of include, exclude, changelog raises a
\* GdAssetError whose message names the tag, whether or not something is suppressed at
\* that point, and get_asset_description never returns for a README that holds one.
C13_UnsupportedDirective ==
    [][/\ (Rendering /\ doc[pc].kind = "Directive" /\ doc[pc].tag \notin SupportedTags)
            => /\ status' = "error"
               /\ err' = "GdAssetError"
               /\ errmsg' = <<"Unsupported directive", doc[pc].tag>>
               /\ out' = out
       /\ status' = "done"
            => \A i \in 1..Len(doc) : doc[i].kind = "Directive" => doc[i].tag \in SupportedTags]_vars

\* C13's case: a `foo` directive was rendered right after an `exclude` directive, while
\* the document was suppressed
C13_Witness ==
    /\ status = "error"
    /\ err = "GdAssetError"
    /\ errmsg = <<"Unsupported directive", "foo">>
    /\ pc = 2
    /\ IsDirective(1, "exclude")
    /\ IsDirective(pc, "foo")

\* the README is about to be parsed
Parsing == status = "parsing"

\* the lines from..to of the README are all the line `line`
AllLines(from, to, line) == \A n \in from..to : readme[n] = line

\* the README is an opening directive line that is not closed on the same line, then
\* attribute lines without `-->`, then at line c the first line that holds `-->`, then
\* text
UnclosedDirectiveUpTo(c) ==
    /\ c \in 2..Len(readme)
    /\ readme[1] = ChangelogOpenLine
    /\ AllLines(2, c - 1, HeadingLine)
    /\ readme[c].arrow # "none"
    /\ AllLines(c + 1, Len(readme), TextLine)

\* C14: a directive whose opening line is not closed on the same line consumes the
\* following lines up to and including the first line that holds `-->`, whatever
\* else that line holds, and the lines after it are parsed as ordinary Markdown: the
\* README becomes one Directive followed by one paragraph for each later line.
C14_UnclosedDirective_AsStated ==
    [][\A c \in 2..MaxLines :
          (Parsing /\ UnclosedDirectiveUpTo(c))
             => /\ status' = "rendering"
                /\ Len(doc') = 1 + (Len(readme) - c)
                /\ doc'[1].kind = "Directive"
                /\ \A n \in 2..Len(doc') : doc'[n] = TextPar]_vars

\* C15: a single line `<!-- gdasset: <tag> [<value>] [attr: val ...] -->` with the tag
\* include, exclude or changelog, with or without a value and attributes after the tag,
\* is parsed as one Directive block (not as raw HTML) whose MetaItem has the lower-cased
\* tag.
C15_SingleLineDirective_AsStated ==
    [][(Parsing /\ Len(readme) = 1 /\ readme[1].open /\ readme[1].arrow = "spaced"
            /\ lower(readme[1].tag) \in SupportedTags)
          => /\ status' = "rendering"
             /\ Len(doc') = 1
             /\ doc'[1].kind = "Directive"
             /\ doc'[1].tag = lower(readme[1].tag)]_vars

\* the README is the line `open`, then text lines, then at line c a line that is `-->`
\* alone, then text lines
MarkdownBlockUpTo(open, c) ==
    /\ c \in 2..Len(readme)
    /\ readme[1] = open
    /\ AllLines(2, c - 1, TextLine)
    /\ readme[c] = CloseLine
    /\ AllLines(c + 1, Len(readme), TextLine)

\* the text of the paragraphs at the indices from..to
TextsOf(from, to) == [j \in 1..(to - from + 1) |-> Text(from + j - 1)]

\* C16 as stated: a block opened by the line `<!-- gdasset: markdown -->` and closed by
\* a later line `-->` is parsed as a raw-markdown block: the enclosed lines are rendered
\* in place as ordinary Markdown and the two marker lines emit nothing.
C16_MarkdownBlock_AsStated ==
    \A c \in 2..MaxLines :
        MarkdownBlockUpTo(MarkdownClosedLine, c)
           => /\ status # "error"
              /\ status = "done" => out = TextsOf(2, c - 1) \o TextsOf(c + 1, Len(readme))

\* C16 (amended): a block opened by the line `<!-- gdasset: markdown` with no `-->` on
\* it and closed by a later line that is `-->` is parsed as a MarkdownDirective whose
\* children are the enclosed lines tokenized as ordinary Markdown; they are rendered in
\* place and the two marker lines emit nothing.  The line `<!-- gdasset: markdown -->`
\* opens no such block: it is a Directive with the tag markdown, and rendering it fails.
C16_MarkdownBlock ==
    /\ \A c \in 2..MaxLines :
          (MarkdownBlockUpTo(MarkdownOpenLine, c) /\ ~Parsing)
             => /\ status # "error"
                /\ doc = <<MarkdownDirectiveTok>> \o [j \in 1..(c - 2) |-> TextPar] \o <<EndTok>>
                             \o [j \in 1..(Len(readme) - c) |-> TextPar]
                /\ status = "done" => out = TextsOf(2, c - 1) \o TextsOf(c + 1, Len(readme))
    /\ (readme # <<>> /\ readme[1] = MarkdownClosedLine)
          => /\ doc # <<>> => doc[1] = DirectiveTok("markdown", NoAttrs)
             /\ status # "done"

\* C16's case: a markdown block with one line, followed by one line, was rendered
C16_Witness ==
    /\ readme = <<MarkdownOpenLine, TextLine, CloseLine, TextLine>>
    /\ status = "done"
    /\ out = <<Text(2), Text(4)>>

\* the image or media link at pc is about to be turned into a preview
MediaStep ==
    \/ ImageStep
    \/ LinkStep /\ is_interesting_link(doc[pc].href)
                /\ (IsVideo(doc[pc].href) \/ is_image_link(doc[pc].href))

\* C17: the previews list holds the preview entries in the order in which their images
\* and media links occur in the document: every step keeps the entries recorded so far
\* where they are, and every image and media link that is rendered appends exactly one
\* entry at the end (unless the rewrite function raises), whether or not the same entry
\* is in the list already.
C17_PreviewsInDocumentOrder ==
    [][cfg.mode = "asset" =>
         /\ Len(previews') >= Len(previews)
         /\ SubSeq(previews', 1, Len(previews)) = previews
         /\ IF MediaStep /\ ~RewriteRaises(IF ImageStep \/ ~IsVideo(doc[pc].href) THEN doc[pc].href
                                             ELSE normalise_video_link(doc[pc].href)[1])
            THEN /\ Len(previews') = Len(previews) + 1
                 /\ previews'[Len(previews')].type =
                        IF ImageStep \/ ~IsVideo(doc[pc].href) THEN "image" ELSE "video"
            ELSE previews' = previews]_vars

\* C17's case: the same image occurred twice, then the README was rendered to the end
C17_Witness ==
    /\ doc = <<ParagraphTok("Image", ImageAbs), ParagraphTok("Image", ImageAbs)>>
    /\ cfg.mode = "asset"
    /\ status = "done"
    /\ previews = <<Preview("image", ImageAbs), Preview("image", ImageAbs)>>

\* get_asset_description is called with the default options
DefaultOptions == cfg.mode = "asset" /\ cfg.unwrap_links /\ ~cfg.preserve_html

\* the token at index i is written with Markdown syntax that is neither a link, an
\* image nor HTML: a heading or an emphasis
KeepsSyntax(i) ==
    \/ doc[i].kind = "Heading"
    \/ doc[i].kind = "Paragraph" /\ doc[i].span = "Emphasis"

\* C18 as stated: with the default options the description holds no Markdown syntax of
\* the README: no heading marker, emphasis marker or link or image bracket syntax.
C18_PlainText_AsStated ==
    DefaultOptions => \A n \in 1..Len(out) : out[n].k # "markup"

\* C18 (amended): with the default options the description is the README written back
\* as Markdown: headings and emphasis keep their markers, and the only Markdown syntax
\* in the output is theirs; links are emitted as their bare target, images, media links
\* and HTML emit nothing.
C18_MarkdownKept ==
    DefaultOptions =>
        /\ \A n \in 1..Len(out) : out[n].k = "markup" => KeepsSyntax(out[n].i)
        /\ (status = "done" /\ \A i \in 1..Len(doc) : doc[i].kind # "Directive")
              => \A i \in 1..Len(doc) : KeepsSyntax(i) => \E n \in 1..Len(out) : out[n] = Markup(i)

\* C18's case: a heading and a bracketed link were rendered with the default options
C18_Witness ==
    /\ DefaultOptions
    /\ doc = <<HeadingTok, ParagraphTok("Link", PageAbs)>>
    /\ status = "done"
    /\ out = <<Markup(1), Bare(PageAbs)>>

\* the URL that the callback of the image or media link at pc passes to prep_image_func
RewrittenUrl ==
    IF ImageStep \/ ~IsVideo(doc[pc].href) THEN doc[pc].href
    ELSE normalise_video_link(doc[pc].href)[1]

\* C19: an exception raised during rendering by a caller-supplied rewrite function
\* (NoImplementationError for a relative image or media link when the repository is on
\* BitBucket) or by a callback leaves get_asset_description as it was raised: the pass
\* ends with that exception, nothing is emitted or recorded for the token, and no
\* (description, previews) is returned afterwards.
C19_ExceptionsPropagate ==
    [][/\ (MediaStep /\ RewriteRaises(RewrittenUrl))
            => /\ status' = "error"
               /\ err' = "NoImplementationError"
               /\ out' = out
               /\ previews' = previews
       /\ (Rendering /\ cbresult'.result = "Raise")
            => (status' = "error" /\ err' = "NoImplementationError")
       /\ status = "error" => status' = "error"]_vars

\* C19's case: after a paragraph, a relative image was rendered for a repository on
\* BitBucket and the rewrite function's NoImplementationError ended the pass
C19_Witness ==
    /\ cfg.provider = "bitbucket"
    /\ doc = <<TextPar, ParagraphTok("Image", ImageRel)>>
    /\ status = "error"
    /\ err = "NoImplementationError"
    /\ out = <<Text(1)>>
    /\ previews = <<>>

\* C20: every supported YouTube URL shape carrying an id (watch/embed with the id in `v`,
\* the watch/embed/v/e/live/shorts prefixes with the id as last path segment, the oembed
\* endpoint wrapping such a URL, the youtu.be short link with its parameters after "?" or
\* glued with "&", over http/https and the bare, www., m. and nocookie hosts) is
\* normalised by normalise_video_link to exactly https://youtube.com/watch?v=<id>, the
\* link's preview (under get_asset_description's defaults) is that URL, and an
\* attribution_link URL gives None and no preview.
C20_YoutubeShapes ==
    \A i \in DOMAIN doc :
        /\ \A id \in YoutubeIds :
              doc[i].href \in YoutubeCorpus[id] =>
                  /\ normalise_video_link(doc[i].href) = <<YoutubeCanonical(id)>>
                  /\ (doc \in YoutubeDocs /\ cfg = DefaultConfig /\ status = "done") =>
                         previews = <<Preview("video", YoutubeCanonical(id))>>
        /\ doc[i].href \in YOUTUBE_UNSUPPORTED_URLS =>
              /\ normalise_video_link(doc[i].href) = <<>>
              /\ (doc \in YoutubeDocs /\ cfg = DefaultConfig /\ status = "done") => previews = <<>>

\* the call returned for a README linking to a short link whose parameters are glued
\* with "&", and the preview is the canonical URL of the id
C20_Witness ==
    /\ status = "done"
    /\ doc = <<ParagraphTok("Link", HrefWith("http", "youtu.be", <<"a-b_9">>, <<>>, <<>>, FALSE, FALSE,
                                           <<>>, <<<<"feature", "channel">>>>))>>
    /\ previews = <<Preview("video", YoutubeCanonical("a-b_9"))>>

\* the extension of the URL path: the last suffix of its last segment, <<>> when it has none
Extension(href) ==
    IF href.path = <<>> \/ href.suffixes = <<>> THEN <<>> ELSE <<href.suffixes[Len(href.suffixes)]>>

\* C21 (as stated): for a link target that YouTube canonicalization does not accept,
\* normalise_video_link returns the href unchanged if and only if the extension of its
\* path is one of VIDEO_EXTS, and None otherwise, whatever the scheme, host and query.
C21_VideoExtension_AsStated ==
    \A i \in DOMAIN doc :
        (doc[i].href # NoHref /\ normalise_youtube_link(doc[i].href) = <<>>) =>
            /\ normalise_video_link(doc[i].href) \in {<<>>, <<doc[i].href>>}
            /\ normalise_video_link(doc[i].href) = <<doc[i].href>>
                   <=> Range(Extension(doc[i].href)) \cap VIDEO_EXTS # {}

\* C22: is_interesting_link is false for every href with a non-empty scheme other than
\* http/https, false for every scheme-less href that is an e-mail address, and true for
\* every other href, whatever its host, suffixes and query string; a link that is not
\* interesting gives no preview.
C22_InterestingLink ==
    \A i \in DOMAIN doc :
        doc[i].href # NoHref =>
            /\ (doc[i].href.scheme \notin {"", "http", "https"}) => ~is_interesting_link(doc[i].href)
            /\ (doc[i].href.scheme = "" /\ doc[i].href.email) => ~is_interesting_link(doc[i].href)
            /\ (\/ doc[i].href.scheme \in {"http", "https"}
                \/ doc[i].href.scheme = "" /\ ~doc[i].href.email) => is_interesting_link(doc[i].href)
            /\ (doc \in ClassifierDocs /\ cfg = DefaultConfig /\ status = "done"
                    /\ ~is_interesting_link(doc[i].href)) => previews = <<>>

\* the call returned for a README linking to https://example.com/a@b.mp4: the address-like
\* path does not matter under http(s), the link is interesting and became a video preview
C22_Witness ==
    /\ status = "done"
    /\ doc = <<ParagraphTok("Link", Href("https", "example.com", <<"a@b">>, <<".mp4">>, <<>>, FALSE, TRUE))>>
    /\ previews = <<Preview("video", doc[1].href)>>

\* what the rules stated for find remove from a candidate: trailing sentence punctuation,
\* then as many trailing characters as it has closing parentheses without an opening
\* one, then a trailing entity reference `&name;`
RECURSIVE EntityStart(_, _)
EntityStart(cand, i) ==
    IF i < 1 THEN 0
    ELSE IF cand[i] = "&" THEN (IF i + 1 < Len(cand) THEN i ELSE 0)
    ELSE IF cand[i] = "a" THEN EntityStart(cand, i - 1)
    ELSE 0
StatedTrim(raw) ==
    LET c1 == rstrip(raw)
        c2 == IF c1 # <<>> /\ c1[Len(c1)] = ")" /\ unmatched_balanced(c1) > 0
              THEN DropLast(c1, unmatched_balanced(c1)) ELSE c1
    IN  IF c2 # <<>> /\ c2[Len(c2)] = ";" /\ EntityStart(c2, Len(c2) - 1) # 0
        THEN SubSeq(c2, 1, EntityStart(c2, Len(c2) - 1) - 1) ELSE c2

\* the matches stated for a text: one per bare URL, in order, trimmed as stated
RECURSIVE StatedFind(_, _)
StatedFind(s, from) ==
    IF NextMatch(s, from) = 0 THEN <<>>
    ELSE LET p == NextMatch(s, from)
             cand == StatedTrim(SubSeq(s, p, RunEnd(s, p)))
         IN  (IF is_url(cand)
              THEN <<MatchObj(Offset(s, p), Offset(s, p) + TextLen(cand), cand)>> ELSE <<>>)
                 \o StatedFind(s, RunEnd(s, p) + 1)

\* C23 (as stated): ExtendedAutoLink.find never raises, and returns in order one match per
\* bare http(s) URL of the text, each trimmed of trailing sentence punctuation, of closing
\* parentheses without a matching opening one and of a trailing entity reference, and of
\* nothing else, with a span that delimits the returned text.
C23_Find_AsStated ==
    /\ find_status \in {"idle", "finding", "returned"}
    /\ find_status = "returned" => candidates = StatedFind(string, 1)

\* C24: in a dry run (cfg.dry_run) upload_or_update never calls
\* rest_api.upload_or_update_asset and never logs in, whatever no_prompt, save, save_auth,
\* the previous payload, the pending edits and the answer to the confirmation are.
C24_DryRunUploadsNothing ==
    (ctx.call = "upload_or_update" /\ ctx.dry_run) =>
        /\ \A n \in DOMAIN calls :
              calls[n] \notin {"upload_or_update_asset", "login", "login_and_update_token"}
        /\ up_pc \in {"prepare", "conclude", "returned"}

\* a dry run of a changed asset returned, after saving the configuration and the
\* authentication data, with the confirmation set
C24_Witness ==
    /\ ctx.call = "upload_or_update" /\ ctx.dry_run /\ ~ctx.no_prompt
    /\ up_pc = "returned"
    /\ confirmation
    /\ calls = <<"get_pending_edits", "save_cfg", "save_auth">>

\* how many times name was called
RECURSIVE CountIn(_, _)
CountIn(s, name) ==
    IF s = <<>> THEN 0 ELSE (IF s[1] = name THEN 1 ELSE 0) + CountIn(Tail(s), name)

\* the block and login_and_update_token ran at most max_retries + 1 times; each run of the
\* block directly follows a login_and_update_token (and the login it made); an attempt
\* made after invalidate_token starts with login_and_update_token and a fresh login
C28_Runs ==
    /\ CountIn(calls, Block(ctx)) <= ctx.max_retries + 1
    /\ CountIn(calls, "login_and_update_token") <= ctx.max_retries + 1
    /\ \A n \in DOMAIN calls :
          /\ calls[n] = Block(ctx) =>
                \/ n > 1 /\ calls[n - 1] = "login_and_update_token"
                \/ n > 2 /\ calls[n - 1] = "login" /\ calls[n - 2] = "login_and_update_token"
          /\ calls[n] = "invalidate_token" =>
                /\ n = Len(calls) => (force /\ ~auth_token /\ up_pc = "attempt")
                /\ n < Len(calls) =>
                      /\ Len(calls) >= n + 2
                      /\ calls[n + 1] = "login_and_update_token"
                      /\ calls[n + 2] = "login"

\* an HTTPRequestError is raised again without a retry when the retries are exhausted,
\* when cfg.no_prompt is set or when username and password were both given; a retry
\* invalidates the token; once the block succeeded nothing is run again
C28_Step ==
    /\ (/\ up_pc = "attempt"
        /\ retry = 0 \/ ctx.no_prompt \/ (ctx.have_username /\ ctx.have_password))
           => (/\ up_pc' # "attempt" /\ retry' = retry
               /\ CountIn(calls', "invalidate_token") = CountIn(calls, "invalidate_token")
               /\ (calls'[Len(calls')] # Block(ctx) \/ up_pc' \in {"raised"}) => up_pc' = "raised")
    /\ (up_pc = "attempt" /\ up_pc' = "attempt")
           => (/\ calls'[Len(calls')] = "invalidate_token"
               /\ force' /\ ~auth_token' /\ retry' = retry - 1)
    /\ (up_pc = "attempt" /\ up_pc' \in {"conclude", "returned"})
           => calls'[Len(calls')] = Block(ctx)
    /\ (up_pc \in {"conclude", "returned", "raised"})
           => CountIn(calls', Block(ctx)) = CountIn(calls, Block(ctx))

\* C28: retry_with_auth(max_retries=n) authenticates and runs the block at most n+1 times
\* and always terminates; every run of the block is preceded by login_and_update_token;
\* after an HTTPRequestError that is retried the token is invalidated and the next attempt
\* logs in afresh before running the block; the error is raised again without a retry when
\* the retries are exhausted, when cfg.no_prompt is set or when username and password were
\* both given; after the block succeeded it is not run again.
C28_RetryWithAuth ==
    /\ []C28_Runs
    /\ [][C28_Step]_vars
    /\ <>(up_pc \in {"returned", "raised"})

\* retry_with_auth(2): the block failed once, the token was invalidated, a fresh login
\* was made and the block then succeeded, with one retry left
C28_Witness ==
    /\ ctx.call = "retry_with_auth" /\ ctx.max_retries = 2
    /\ up_pc = "returned"
    /\ retry = 1
    /\ calls = <<"login_and_update_token", "block", "invalidate_token",
                 "login_and_update_token", "login", "block">>

\* the value holds the password: as a string, or under the key `password` of a dict
HoldsPassword(v) ==
    \/ v.str = "hunter2"
    \/ \E k \in DOMAIN v.items : k = "password" \/ v.items[k].str = "hunter2"

\* C25: the password is never saved: whatever the field values and the exclude argument,
\* Auth.save writes no `password` key to gdasset-auth.toml and Config.save writes neither
\* the nested auth data nor any password to gdasset.toml.
C25_PasswordNeverSaved ==
    \A f \in DOMAIN written :
        /\ f = FILE_NAME(obj.cls)
        /\ \A k \in DOMAIN written[f] :
              /\ k \notin {"password", "auth"}
              /\ ~HoldsPassword(written[f][k])

\* an Auth with username, password and token was saved with nothing excluded: the file
\* holds the username and the token
C25_Witness ==
    /\ obj = Auth(Str("alice"), Str("hunter2"), Str("tok"))
    /\ exclude = {}
    /\ DOMAIN written = {"gdasset-auth.toml"}
    /\ DOMAIN written["gdasset-auth.toml"] = {"username", "token"}

\* the categories a designator stands for as stated: `group/name` split at its `/`, or a
\* name alone, each a case-insensitive prefix
StatedParts(s) ==
    LET i == CHOOSE i \in 0..Len(s) : (i # 0 /\ s[i] = "/") \/ (i = 0 /\ \A j \in DOMAIN s : s[j] # "/") IN
        IF i = 0 THEN << <<>>, Lower(s) >>
        ELSE <<Lower(SubSeq(s, 1, i - 1)), Lower(SubSeq(s, i + 1, Len(s)))>>
StatedCandidates(s) ==
    {id \in CategoryIds :
        /\ StartsWith(Lower(CATEGORY_ID_MAP[id][1]), StatedParts(s)[1])
        /\ StartsWith(Lower(CATEGORY_ID_MAP[id][2]), StatedParts(s)[2])}

\* C26 (as stated): find_category_id resolves to a category's id, case-insensitively, its
\* `Group/Name`, its name alone and any shortened form whose group prefix and name prefix
\* match that category alone, and raises ValueError for a designator that matches several
\* categories or none; find_category_id of the `group/name` of find_category_name(id) is id.
C26_CategoryDesignators_AsStated ==
    (cat_pc \in {"returned", "ValueError"}) =>
        IF Cardinality(StatedCandidates(designator)) = 1
        THEN cat_pc = "returned" /\ category \in StatedCandidates(designator)
        ELSE cat_pc = "ValueError"

\* the levels of the chain, PATH included when it is a directory, that hold a repository
RepoLevels ==
    {n \in 1..Len(tree) : tree[n] # {} /\ (n < Len(tree) \/ path_is_dir)}

\* C27 (as stated): guess_vcs_type(path) detects a repository at PATH or at any ancestor
\* and returns an implementation that has a repository there together with the closest
\* such directory; it returns (None, None) only when no directory of the chain holds one.
C27_GuessVcsType_AsStated ==
    guessed # <<>> =>
        IF RepoLevels = {}
        THEN guessed = <<"None", -1>>
        ELSE /\ guessed[2] \in RepoLevels
             /\ \A n \in RepoLevels : n <= guessed[2]
             /\ guessed[1] \in tree[guessed[2]]

RECURSIVE Ancestors(_, _)
\* the blocks that enclose position i of d: its parent, the parent's parent, ..., the
\* Document
Ancestors(d, i) ==
    LET p == Parent(d, i) IN IF p = 0 THEN {0} ELSE {p} \cup Ancestors(d, p)

\* C29 (as stated): suppression never outlives the block it was started in: while a
\* document is rendered every suppressed block still encloses the position rendering has
\* reached, and when render ends, returning or raising, the suppressed list is empty.
C29_SuppressionEndsWithBlock_AsStated ==
    /\ status = "rendering" => Range(suppressed) \subseteq Ancestors(doc, pc)
    /\ status \in {"done", "error"} => suppressed = <<>>

====
